---- MODULE Spec2Model ----
(***************************************************************************)
(* A model of the three source files of the repository:                    *)
(*   - the jquery.cookie test fixture (src/unnamed/part_000),              *)
(*   - the yazl test fixture and the compiler configuration that follows   *)
(*     it (src/types/yazl/yazl-tests.ts),                                  *)
(*   - the React v15 declaration file (src/types/react/v15/index.d.ts).    *)
(*                                                                         *)
(* Spec     runs the two fixtures statement by statement, together with    *)
(*          the callbacks the yazl fixture registers.                      *)
(* SpecDecl runs the static passes over the declared material: the scan of *)
(*          the function-like declarations, the walk over the type graph,  *)
(*          the resolution of the names each file uses, the loading of the *)
(*          compiler configuration, the resolution of the calls of the     *)
(*          overloaded functions and the augmentation of the global JSX    *)
(*          interfaces.                                                    *)
(***************************************************************************)
EXTENDS Integers, Sequences, FiniteSets, TLC

VARIABLES
    cpc,        \* cookie fixture: index of the next statement of CookieFixture
    jq,         \* cookie fixture: the fields of the global $.cookie
    jq0,        \* cookie fixture: the fields of $.cookie before the fixture started
    cenv,       \* cookie fixture: the top-level vars testObject, cookieOptions, result
    accepted,   \* cookie fixture: lines of the statements the type checker accepted
    rejected,   \* cookie fixture: lines of the statements the type checker rejected
    zpc,        \* yazl fixture: index of the next statement of ZipFixture
    zcalls,     \* yazl fixture: the methods called on zipfile so far, in order
    ztypes,     \* yazl fixture: the type of the value of each of these calls
    handlers,   \* yazl fixture: lines of the callbacks registered so far
    ran,        \* yazl fixture: lines of the callbacks that have run
    errArgs,    \* yazl fixture: error values delivered at run time, [line, to, err]
    nErrors,    \* yazl fixture: number of "error" events emitted so far
    io,         \* both fixtures: I/O operations performed, [file, line, op, target]
    pass,       \* static passes: the pass that runs ("none" while the fixtures run)
    scan,       \* scan pass: position in Functions and what was found
    walk,       \* walk pass: the edge kind, the start, the current type
    lookup,     \* resolve pass: the last reference looked up and where it was found
    cfg,        \* config pass: position in the configuration and what was loaded
    call,       \* overload pass: the call being resolved and how far resolution got
    aug         \* augment pass: the members merged into the global JSX interfaces

fixtureVars == <<cpc, jq, jq0, cenv, accepted, rejected, zpc, zcalls, ztypes, handlers, ran,
                 errArgs, nErrors, io>>

declVars == <<pass, scan, walk, lookup, cfg, call, aug>>

\* The number of "error" events the environment emits in one run.
MaxErrors == 2

Undefined == "undefined"

-----------------------------------------------------------------------------
(***************************************************************************)
(* The cookie fixture, src/unnamed/part_000                                *)
(***************************************************************************)

\* class TestObject: the constructor has a body of two assignments.
TestObjectNew(text, value) == [def |-> TRUE, text |-> text, value |-> value]

NoTestObject == [def |-> FALSE, text |-> Undefined, value |-> 0]

\* class CookieOptions implements JQueryCookieOptions: the declared field types.
CookieOptionsClass ==
    [expires |-> "number", path |-> "string", domain |-> "string", secure |-> "boolean"]

\* new CookieOptions(): no constructor is declared, every field starts undefined.
CookieOptionsNew ==
    [def |-> TRUE, expires |-> Undefined, path |-> Undefined, domain |-> Undefined,
     secure |-> Undefined]

NoCookieOptions ==
    [def |-> FALSE, expires |-> Undefined, path |-> Undefined, domain |-> Undefined,
     secure |-> Undefined]

\* One statement of the fixture.  op is what the statement does:
\*   "write"    $.cookie(name, value [, options])
\*   "read"     var result = <TestObject> $.cookie(name)
\*   "logRead"  console.log($.cookie(name))
\*   "logField" console.log(result.text)
\*   "newTest"  var testObject = new TestObject(...)
\*   "newOpts"  var cookieOptions = new CookieOptions()
\*   "setOpt"   cookieOptions.<field> = <value>
\*   "setJson"  $.cookie.json = true
\*   "setDefaults" $.cookie.defaults = cookieOptions
\* options is "omitted", "literal" (an object literal whose expires has the
\* kind given by expires) or "cookieOptions" (the variable); expectError says
\* that the statement is preceded by a ts-expect-error directive.
Stmt(line, op, name, options, expires, expectError, field, value) ==
    [line |-> line, op |-> op, name |-> name, options |-> options,
     expires |-> expires, expectError |-> expectError, field |-> field,
     value |-> value]

CookieFixture == <<
    Stmt(18, "write",       "the_cookie", "omitted",       "none",   FALSE, "", "the_value"),
    Stmt(20, "write",       "the_cookie", "literal",       "number", FALSE, "", "the_value"),
    Stmt(22, "write",       "the_cookie", "literal",       "Date",   FALSE, "", "the_value"),
    Stmt(25, "write",       "the_cookie", "literal",       "string", TRUE,  "", "the_value"),
    Stmt(27, "logRead",     "the_cookie", "none",          "none",   FALSE, "", ""),
    Stmt(29, "newTest",     "",           "none",          "none",   FALSE, "", "Hello World"),
    Stmt(31, "newOpts",     "",           "none",          "none",   FALSE, "", ""),
    Stmt(32, "setOpt",      "",           "none",          "none",   FALSE, "path", "/"),
    Stmt(33, "setOpt",      "",           "none",          "none",   FALSE, "domain", "jquery.com"),
    Stmt(35, "setJson",     "",           "none",          "none",   FALSE, "json", "true"),
    Stmt(37, "write",       "test",       "cookieOptions", "none",   FALSE, "", "testObject"),
    Stmt(39, "read",        "test",       "none",          "none",   FALSE, "", ""),
    Stmt(41, "logField",    "",           "none",          "none",   FALSE, "text", ""),
    Stmt(43, "setDefaults", "",           "none",          "none",   FALSE, "defaults", "cookieOptions")
>>

CookieDone == Len(CookieFixture) + 1

\* The kind of options.expires in a call $.cookie(name, value, options).
ExpiresKind(s) ==
    CASE s.options = "omitted"       -> "omitted"
      [] s.options = "literal"       -> s.expires
      [] s.options = "cookieOptions" -> CookieOptionsClass.expires
      [] OTHER                       -> "none"

\* Variant: the checker ignores the ts-expect-error directive.
VerdictIgnoringDirective(s) == "accepted"

\* The diagnostic the fixture requires of the type checker for a statement: a
\* statement under a ts-expect-error directive must be rejected, every other
\* statement must be accepted.
Verdict(s) == IF s.expectError THEN "rejected" ELSE "accepted"

\* Variant: the assignments to cookieOptions go to $.cookie.defaults instead.
CookieGlobalEffectAliased(s, g, env) ==
    CASE s.op = "setJson"     -> [g EXCEPT !.json = TRUE]
      [] s.op = "setDefaults" -> [g EXCEPT !.defaults = env.cookieOptions]
      [] s.op = "setOpt"      -> [g EXCEPT !.defaults = [@ EXCEPT ![s.field] = s.value]]
      [] OTHER                -> g

\* What a statement does to the fields of the global $.cookie.
CookieGlobalEffect(s, g, env) ==
    CASE s.op = "setJson"     -> [g EXCEPT !.json = TRUE]
      [] s.op = "setDefaults" -> [g EXCEPT !.defaults = env.cookieOptions]
      [] OTHER                -> g

\* What a statement does to the top-level vars of the fixture.
CookieEnvEffect(s, env) ==
    CASE s.op = "newTest" -> [env EXCEPT !.testObject = TestObjectNew(s.value, 5)]
      [] s.op = "newOpts" -> [env EXCEPT !.cookieOptions = CookieOptionsNew]
      [] s.op = "setOpt"  -> [env EXCEPT !.cookieOptions = [@ EXCEPT ![s.field] = s.value]]
      [] s.op = "read"    -> [env EXCEPT !.result = s.name]
      [] OTHER            -> env

\* Variant: the console.log calls are dropped.
CookieIONone(s) == {}

\* The I/O a statement of the cookie fixture performs.
CookieIO(s) ==
    IF s.op \in {"logRead", "logField"}
    THEN {[file |-> "part_000", line |-> s.line, op |-> "write", target |-> "stdout"]}
    ELSE {}

\* One statement of the cookie fixture: it is type-checked, then it acts.
CookieStep ==
    /\ cpc < CookieDone
    /\ LET s == CookieFixture[cpc] IN
         /\ accepted' = IF Verdict(s) = "accepted" THEN accepted \cup {s.line} ELSE accepted
         /\ rejected' = IF Verdict(s) = "rejected" THEN rejected \cup {s.line} ELSE rejected
         /\ jq' = CookieGlobalEffect(s, jq, cenv)
         /\ cenv' = CookieEnvEffect(s, cenv)
         /\ io' = io \cup CookieIO(s)
    /\ cpc' = cpc + 1
    /\ UNCHANGED <<jq0, zpc, zcalls, ztypes, handlers, ran, errArgs, nErrors, declVars>>

-----------------------------------------------------------------------------
(***************************************************************************)
(* The yazl fixture, src/types/yazl/yazl-tests.ts lines 1-36               *)
(***************************************************************************)

NoIO == {}

ZipIO(line, op, target) ==
    {[file |-> "yazl-tests.ts", line |-> line, op |-> op, target |-> target]}

\* One statement of the fixture: the method it calls on zipfile (or on
\* zipfile.outputStream), the line of the callback it registers (0: none) and
\* the I/O it performs itself.
ZStmt(line, method, registers, sio) ==
    [line |-> line, method |-> method, registers |-> registers, io |-> sio]

\* Variant: end() is called before the last file is added.
ZipFixtureEndEarly == <<
    ZStmt(4,  "new",               0,  NoIO),
    ZStmt(5,  "addFile",           0,  NoIO),
    ZStmt(7,  "addFile",           0,  NoIO),
    ZStmt(10, "outputStream",      0,  NoIO),
    ZStmt(13, "on",                13, NoIO),
    ZStmt(17, "pipe",              17, ZipIO(17, "open", "output.zip")),
    ZStmt(21, "addReadStream",     0,  ZipIO(21, "read", "stdin")),
    ZStmt(25, "addReadStreamLazy", 25, NoIO),
    ZStmt(26, "addReadStreamLazy", 29, NoIO),
    ZStmt(36, "end",               0,  NoIO),
    ZStmt(31, "addBuffer",         0,  NoIO)
>>

\* The statements of the usage sequence, lines 4-36.
ZipFixture == <<
    ZStmt(4,  "new",               0,  NoIO),
    ZStmt(5,  "addFile",           0,  NoIO),
    ZStmt(7,  "addFile",           0,  NoIO),
    ZStmt(10, "outputStream",      0,  NoIO),
    ZStmt(13, "on",                13, NoIO),
    ZStmt(17, "pipe",              17, ZipIO(17, "open", "output.zip")),
    ZStmt(21, "addReadStream",     0,  ZipIO(21, "read", "stdin")),
    ZStmt(25, "addReadStreamLazy", 25, NoIO),
    ZStmt(26, "addReadStreamLazy", 29, NoIO),
    ZStmt(31, "addBuffer",         0,  NoIO),
    ZStmt(36, "end",               0,  NoIO)
>>

ZipDone == Len(ZipFixture) + 1

\* The methods that add a file to the archive.
AddMethods == {"addFile", "addReadStream", "addReadStreamLazy", "addBuffer"}

\* Variant: the getReadStream function of line 29 passes null like that of line 25.
CallbackNullError(line) ==
    CASE line = 13 -> [event |-> "error", err |-> "none", cio |-> ZipIO(14, "write", "stderr")]
      [] line = 17 -> [event |-> "close", err |-> "none", cio |-> ZipIO(18, "write", "stdout")]
      [] line = 25 -> [event |-> "lazy",  err |-> "null", cio |-> ZipIO(25, "read", "stdin")]
      [] line = 29 -> [event |-> "lazy",  err |-> "null", cio |-> ZipIO(29, "read", "stdin")]

\* The callbacks of the fixture, by the line they are written on:
\*   13  (err) => { console.error("error", err); }     the "error" handler
\*   17  () => { console.log("done"); }                the "close" handler
\*   25  cb => cb(null, process.stdin)                 a getReadStream function
\*   29  cb => cb({}, process.stdin)                   a getReadStream function
\* event is what makes it run, err the error argument it passes on ("none":
\* it passes no error), cio the I/O its body performs.
Callback(line) ==
    CASE line = 13 -> [event |-> "error", err |-> "none", cio |-> ZipIO(14, "write", "stderr")]
      [] line = 17 -> [event |-> "close", err |-> "none", cio |-> ZipIO(18, "write", "stdout")]
      [] line = 25 -> [event |-> "lazy",  err |-> "null", cio |-> ZipIO(25, "read", "stdin")]
      [] line = 29 -> [event |-> "lazy",  err |-> "{}",   cio |-> ZipIO(29, "read", "stdin")]

CallbackLines == {13, 17, 25, 29}

\* The error values an "error" event carries: an Error of the library or the
\* value a getReadStream function passed to its callback.
ErrorValues == {"Error", "{}"}

\* Variant: outputStream is created by end().
OutputStreamTypeOnceEnded(calls) ==
    IF \E i \in 1..Len(calls) : calls[i] = "end" THEN "ReadableStream" ELSE "unavailable"

\* The type of zipfile.outputStream after the calls made so far.  zipfile is
\* bound by the constructor call of line 4; from then on the property has the
\* type asserted on line 9, which does not include undefined.
OutputStreamType(calls) ==
    IF \E i \in 1..Len(calls) : calls[i] = "new" THEN "ReadableStream" ELSE "unavailable"

\* The $ExpectType assertions of the fixture, by the line of the expression
\* they stand above ("unchecked": the line carries no assertion).
ExpectType(line) ==
    CASE line = 10 -> "ReadableStream"
      [] line = 13 -> "ZipFile"
      [] OTHER     -> "unchecked"

\* Variant: on() is typed as the EventEmitter method it overrides.
ResultTypeEmitter(s, calls) ==
    CASE s.method = "new"          -> "ZipFile"
      [] s.method = "outputStream" -> OutputStreamType(calls)
      [] s.method = "on"           -> "EventEmitter"
      [] OTHER                     -> "unchecked"

\* The type of the value of a statement that follows the given calls: the
\* constructor call gives a ZipFile, a read of outputStream the type of that
\* property, and any other statement the type asserted above it.
ResultType(s, calls) ==
    CASE s.method = "new"          -> "ZipFile"
      [] s.method = "outputStream" -> OutputStreamType(calls)
      [] OTHER                     -> ExpectType(s.line)

\* Variant: a statement registers no callback.
RegistersNothing(s) == {}

\* The callbacks a statement registers.
Registers(s) == IF s.registers = 0 THEN {} ELSE {s.registers}

\* One statement of the main sequence of the yazl fixture.
ZipStep ==
    /\ zpc < ZipDone
    /\ LET s == ZipFixture[zpc] IN
         /\ zcalls' = Append(zcalls, s.method)
         /\ ztypes' = Append(ztypes, ResultType(s, zcalls))
         /\ handlers' = handlers \cup Registers(s)
         /\ io' = io \cup s.io
    /\ zpc' = zpc + 1
    /\ UNCHANGED <<cpc, jq, jq0, cenv, accepted, rejected, ran, errArgs, nErrors, declVars>>

\* The library calls a registered getReadStream function, which calls back
\* with its error argument and process.stdin.  A script runs to completion
\* before any callback is dispatched.
RunLazy(h) ==
    /\ zpc = ZipDone
    /\ h \in handlers \ ran
    /\ Callback(h).event = "lazy"
    /\ ran' = ran \cup {h}
    /\ errArgs' = errArgs \cup {[line |-> h, to |-> "cb", err |-> Callback(h).err]}
    /\ io' = io \cup Callback(h).cio
    /\ UNCHANGED <<cpc, jq, jq0, cenv, accepted, rejected, zpc, zcalls, ztypes, handlers, nErrors, declVars>>

\* The zipfile emits "error": the registered handler receives the error and
\* writes it to the console.
EmitError(e) ==
    /\ zpc = ZipDone
    /\ nErrors < MaxErrors
    /\ \E h \in handlers :
         /\ Callback(h).event = "error"
         /\ ran' = ran \cup {h}
         /\ errArgs' = errArgs \cup {[line |-> h, to |-> "handler", err |-> e]}
         /\ io' = io \cup Callback(h).cio
    /\ nErrors' = nErrors + 1
    /\ UNCHANGED <<cpc, jq, jq0, cenv, accepted, rejected, zpc, zcalls, ztypes, handlers, declVars>>

\* The write stream emits "close": the registered handler logs "done".
EmitClose ==
    /\ zpc = ZipDone
    /\ \E h \in handlers \ ran :
         /\ Callback(h).event = "close"
         /\ ran' = ran \cup {h}
         /\ io' = io \cup Callback(h).cio
    /\ UNCHANGED <<cpc, jq, jq0, cenv, accepted, rejected, zpc, zcalls, ztypes, handlers,
                   errArgs, nErrors, declVars>>

-----------------------------------------------------------------------------
(***************************************************************************)
(* The declaration file, src/types/react/v15/index.d.ts: its types         *)
(***************************************************************************)

\* A declared type is <<scope, name>>.  The scopes of the file are "" (the
\* top level of the module), "React" (declare namespace React), "React.JSX"
\* (namespace JSX inside it) and "global.JSX" (namespace JSX inside declare
\* global).  A reference to a type is <<qualifier, name>> as written in the
\* source: <<"", "ReactNode">> for ReactNode, <<"JSX", "Element">> for
\* JSX.Element.
In(scope, names) == {<<scope, n>> : n \in names}

N(names) == {<<"", n>> : n \in names}

Q(qualifier, names) == {<<qualifier, n>> : n \in names}

\* One declaration: its lines, the references of its extends clause and all
\* the references of its definition (those of the extends clause included).
\* Type parameters, keywords and primitive types are not references.
D(first, last, extends, others) ==
    [first |-> first, last |-> last, extends |-> extends, refs |-> extends \cup others]

\* The types the file declares, in the order of their declarations.
Types ==
    In("", {"NativeAnimationEvent", "NativeClipboardEvent", "NativeCompositionEvent",
        "NativeDragEvent", "NativeFocusEvent", "NativeKeyboardEvent", "NativeMouseEvent",
        "NativeTouchEvent", "NativeTransitionEvent", "NativeUIEvent", "NativeWheelEvent",
        "CrossOrigin", "GlobalJSXElement", "GlobalJSXElementClass",
        "GlobalJSXElementAttributesProperty", "GlobalJSXElementChildrenAttribute",
        "GlobalJSXIntrinsicAttributes", "GlobalJSXIntrinsicClassAttributes",
        "GlobalJSXIntrinsicElements"})
    \cup In("React", {"ElementType", "ReactType", "ComponentType", "Key", "Ref",
        "ComponentState", "Attributes", "ClassAttributes", "ReactElement", "SFCElement",
        "CElement", "ComponentElement", "ClassicElement", "DOMElement", "ReactHTMLElement",
        "DetailedReactHTMLElement", "ReactSVGElement", "WebViewHTMLAttributes", "Factory",
        "SFCFactory", "ComponentFactory", "CFactory", "ClassicFactory", "DOMFactory",
        "HTMLFactory", "DetailedHTMLFactory", "SVGFactory", "ReactText", "ReactChild",
        "ReactNodeArray", "ReactFragment", "ReactNode", "ReactInstance", "Component",
        "PureComponent", "ClassicComponent", "ChildContextProvider", "SFC",
        "StatelessComponent", "ComponentClass", "ClassicComponentClass", "ClassType",
        "ComponentLifecycle", "Mixin", "ComponentSpec", "SyntheticEvent", "ClipboardEvent",
        "CompositionEvent", "DragEvent", "FocusEvent", "FormEvent", "InvalidEvent",
        "ChangeEvent", "ModifierKey", "KeyboardEvent", "MouseEvent", "TouchEvent", "UIEvent",
        "WheelEvent", "AnimationEvent", "TransitionEvent", "EventHandler", "ReactEventHandler",
        "ClipboardEventHandler", "CompositionEventHandler", "DragEventHandler",
        "FocusEventHandler", "FormEventHandler", "ChangeEventHandler", "KeyboardEventHandler",
        "MouseEventHandler", "TouchEventHandler", "UIEventHandler", "WheelEventHandler",
        "AnimationEventHandler", "TransitionEventHandler", "Props", "HTMLProps",
        "DetailedHTMLProps", "SVGProps", "SVGLineElementAttributes",
        "SVGTextElementAttributes", "DOMAttributes", "CSSWideKeyword", "CSSPercentage",
        "CSSLength", "CSSProperties", "AriaAttributes", "HTMLAttributes", "AllHTMLAttributes",
        "AnchorHTMLAttributes", "AudioHTMLAttributes", "AreaHTMLAttributes",
        "BaseHTMLAttributes", "BlockquoteHTMLAttributes", "ButtonHTMLAttributes",
        "CanvasHTMLAttributes", "ColHTMLAttributes", "ColgroupHTMLAttributes",
        "DataHTMLAttributes", "DetailsHTMLAttributes", "DelHTMLAttributes",
        "EmbedHTMLAttributes", "FieldsetHTMLAttributes", "FormHTMLAttributes",
        "HtmlHTMLAttributes", "IframeHTMLAttributes", "ImgHTMLAttributes", "InsHTMLAttributes",
        "InputHTMLAttributes", "KeygenHTMLAttributes", "LabelHTMLAttributes",
        "LiHTMLAttributes", "LinkHTMLAttributes", "MapHTMLAttributes", "MenuHTMLAttributes",
        "MediaHTMLAttributes", "MetaHTMLAttributes", "MeterHTMLAttributes",
        "QuoteHTMLAttributes", "ObjectHTMLAttributes", "OlHTMLAttributes",
        "OptgroupHTMLAttributes", "OptionHTMLAttributes", "OutputHTMLAttributes",
        "ParamHTMLAttributes", "ProgressHTMLAttributes", "ScriptHTMLAttributes",
        "SelectHTMLAttributes", "SourceHTMLAttributes", "StyleHTMLAttributes",
        "TableHTMLAttributes", "TextareaHTMLAttributes", "TdHTMLAttributes",
        "ThHTMLAttributes", "TimeHTMLAttributes", "TrackHTMLAttributes", "VideoHTMLAttributes",
        "SVGAttributes", "ReactHTML", "ReactSVG", "ReactDOM", "Validator", "Requireable",
        "ValidationMap", "ReactPropTypes", "ReactChildren", "AbstractView", "Touch",
        "TouchList"})
    \cup In("React.JSX", {"Element", "ElementClass", "ElementAttributesProperty",
        "ElementChildrenAttribute", "IntrinsicAttributes", "IntrinsicClassAttributes",
        "IntrinsicElements"})
    \cup In("global.JSX", {"Element", "ElementClass", "ElementAttributesProperty",
        "ElementChildrenAttribute", "IntrinsicAttributes", "IntrinsicClassAttributes",
        "IntrinsicElements"})

\* The declaration of each type, from the source.
TypeDecl(t) ==
    CASE t = <<"", "NativeAnimationEvent">> -> D(39, 39, {}, N({"AnimationEvent"}))
      [] t = <<"", "NativeClipboardEvent">> -> D(40, 40, {}, N({"ClipboardEvent"}))
      [] t = <<"", "NativeCompositionEvent">> -> D(41, 41, {}, N({"CompositionEvent"}))
      [] t = <<"", "NativeDragEvent">> -> D(42, 42, {}, N({"DragEvent"}))
      [] t = <<"", "NativeFocusEvent">> -> D(43, 43, {}, N({"FocusEvent"}))
      [] t = <<"", "NativeKeyboardEvent">> -> D(44, 44, {}, N({"KeyboardEvent"}))
      [] t = <<"", "NativeMouseEvent">> -> D(45, 45, {}, N({"MouseEvent"}))
      [] t = <<"", "NativeTouchEvent">> -> D(46, 46, {}, N({"TouchEvent"}))
      [] t = <<"", "NativeTransitionEvent">> -> D(47, 47, {}, N({"TransitionEvent"}))
      [] t = <<"", "NativeUIEvent">> -> D(48, 48, {}, N({"UIEvent"}))
      [] t = <<"", "NativeWheelEvent">> -> D(49, 49, {}, N({"WheelEvent"}))
      [] t = <<"", "CrossOrigin">> -> D(50, 50, {}, {})
      [] t = <<"React", "ElementType">> -> D(61, 61, {}, N({"ComponentType"}))
      [] t = <<"React", "ReactType">> -> D(65, 65, {}, N({"ElementType"}))
      [] t = <<"React", "ComponentType">> -> D(66, 66, {}, N({"ComponentClass",
               "StatelessComponent"}))
      [] t = <<"React", "Key">> -> D(68, 68, {}, {})
      [] t = <<"React", "Ref">> -> D(69, 69, {}, {})
      [] t = <<"React", "ComponentState">> -> D(72, 72, {}, {})
      [] t = <<"React", "Attributes">> -> D(74, 76, {}, N({"Key"}))
      [] t = <<"React", "ClassAttributes">> -> D(77, 79, N({"Attributes"}), N({"Ref"}))
      [] t = <<"React", "ReactElement">> -> D(81, 85, {}, N({"ComponentClass", "Key", "SFC"}))
      [] t = <<"React", "SFCElement">> -> D(87, 89, N({"ReactElement"}), N({"SFC"}))
      [] t = <<"React", "CElement">> -> D(91, 91, {}, N({"Component", "ComponentElement",
               "ComponentState"}))
      [] t = <<"React", "ComponentElement">> -> D(92, 95, N({"ReactElement"}), N({"Component",
               "ComponentClass", "ComponentState", "Ref"}))
      [] t = <<"React", "ClassicElement">> -> D(97, 97, {}, N({"CElement", "ClassicComponent",
               "ComponentState"}))
      [] t = <<"React", "DOMElement">> -> D(100, 103, N({"ReactElement"}), N({"Element",
               "HTMLAttributes", "Ref", "SVGAttributes"}))
      [] t = <<"React", "ReactHTMLElement">> -> D(106, 106, N({"DetailedReactHTMLElement"}),
               N({"AllHTMLAttributes", "HTMLElement"}))
      [] t = <<"React", "DetailedReactHTMLElement">> -> D(108, 110, N({"DOMElement"}),
               N({"HTMLAttributes", "HTMLElement", "ReactHTML"}))
      [] t = <<"React", "ReactSVGElement">> -> D(113, 115, N({"DOMElement"}), N({"ReactSVG",
               "SVGAttributes", "SVGElement"}))
      [] t = <<"React", "WebViewHTMLAttributes">> -> D(117, 134, N({"HTMLAttributes"}), {})
      [] t = <<"React", "Factory">> -> D(140, 140, {}, N({"Attributes", "ReactElement",
               "ReactNode"}))
      [] t = <<"React", "SFCFactory">> -> D(142, 142, {}, N({"Attributes", "ReactNode",
               "SFCElement"}))
      [] t = <<"React", "ComponentFactory">> -> D(144, 147, {}, N({"CElement",
               "ClassAttributes", "Component", "ComponentState", "ReactNode"}))
      [] t = <<"React", "CFactory">> -> D(149, 149, {}, N({"Component", "ComponentFactory",
               "ComponentState"}))
      [] t = <<"React", "ClassicFactory">> -> D(150, 150, {}, N({"CFactory",
               "ClassicComponent", "ComponentState"}))
      [] t = <<"React", "DOMFactory">> -> D(152, 155, {}, N({"ClassAttributes",
               "DOMAttributes", "DOMElement", "Element", "ReactNode"}))
      [] t = <<"React", "HTMLFactory">> -> D(157, 157, N({"DetailedHTMLFactory"}),
               N({"AllHTMLAttributes", "HTMLElement"}))
      [] t = <<"React", "DetailedHTMLFactory">> -> D(159, 161, N({"DOMFactory"}),
               N({"ClassAttributes", "DetailedReactHTMLElement", "HTMLAttributes",
               "HTMLElement", "ReactNode"}))
      [] t = <<"React", "SVGFactory">> -> D(163, 168, N({"DOMFactory"}), N({"ClassAttributes",
               "ReactNode", "ReactSVGElement", "SVGAttributes", "SVGElement"}))
      [] t = <<"React", "ReactText">> -> D(175, 175, {}, {})
      [] t = <<"React", "ReactChild">> -> D(176, 176, {}, N({"ReactElement", "ReactText"}))
      [] t = <<"React", "ReactNodeArray">> -> D(178, 178, N({"Array"}), N({"ReactNode"}))
      [] t = <<"React", "ReactFragment">> -> D(179, 179, {}, N({"ReactNodeArray"}))
      [] t = <<"React", "ReactNode">> -> D(180, 180, {}, N({"ReactChild", "ReactFragment"}))
      [] t = <<"React", "ReactInstance">> -> D(309, 309, {}, N({"Component", "Element"}))
      [] t = <<"React", "Component">> -> D(312, 338, N({"ComponentLifecycle"}), N({"Pick",
               "ReactInstance", "ReactNode", "Readonly"}) \cup Q("JSX", {"Element"}))
      [] t = <<"React", "PureComponent">> -> D(340, 340, N({"Component"}), {})
      [] t = <<"React", "ClassicComponent">> -> D(342, 346, N({"Component"}), {})
      [] t = <<"React", "ChildContextProvider">> -> D(348, 350, {}, {})
      [] t = <<"React", "SFC">> -> D(356, 356, {}, N({"StatelessComponent"}))
      [] t = <<"React", "StatelessComponent">> -> D(357, 363, {}, N({"Partial", "ReactElement",
               "ReactNode", "ValidationMap"}))
      [] t = <<"React", "ComponentClass">> -> D(365, 372, {}, N({"Component", "ComponentState",
               "Partial", "ValidationMap"}))
      [] t = <<"React", "ClassicComponentClass">> -> D(374, 377, N({"ComponentClass"}),
               N({"ClassicComponent", "ComponentState"}))
      [] t = <<"React", "ClassType">> -> D(384, 387, {}, N({"Component", "ComponentClass",
               "ComponentState"}))
      [] t = <<"React", "ComponentLifecycle">> -> D(393, 401, {}, N({"Readonly"}))
      [] t = <<"React", "Mixin">> -> D(403, 416, N({"ComponentLifecycle"}), N({"Array",
               "Mixin", "ValidationMap"}))
      [] t = <<"React", "ComponentSpec">> -> D(418, 422, N({"Mixin"}), N({"ReactElement"}))
      [] t = <<"React", "SyntheticEvent">> -> D(428, 445, {}, N({"Event", "EventTarget"}))
      [] t = <<"React", "ClipboardEvent">> -> D(447, 450, N({"SyntheticEvent"}),
               N({"DataTransfer", "NativeClipboardEvent"}))
      [] t = <<"React", "CompositionEvent">> -> D(452, 455, N({"SyntheticEvent"}),
               N({"NativeCompositionEvent"}))
      [] t = <<"React", "DragEvent">> -> D(457, 460, N({"MouseEvent"}), N({"DataTransfer",
               "NativeDragEvent"}))
      [] t = <<"React", "FocusEvent">> -> D(462, 465, N({"SyntheticEvent"}), N({"EventTarget",
               "NativeFocusEvent"}))
      [] t = <<"React", "FormEvent">> -> D(467, 468, N({"SyntheticEvent"}), {})
      [] t = <<"React", "InvalidEvent">> -> D(470, 472, N({"SyntheticEvent"}),
               N({"EventTarget"}))
      [] t = <<"React", "ChangeEvent">> -> D(474, 476, N({"SyntheticEvent"}),
               N({"EventTarget"}))
      [] t = <<"React", "ModifierKey">> -> D(478, 492, {}, {})
      [] t = <<"React", "KeyboardEvent">> -> D(494, 508, N({"SyntheticEvent"}),
               N({"ModifierKey", "NativeKeyboardEvent"}))
      [] t = <<"React", "MouseEvent">> -> D(510, 526, N({"SyntheticEvent"}), N({"EventTarget",
               "ModifierKey", "NativeMouseEvent"}))
      [] t = <<"React", "TouchEvent">> -> D(528, 538, N({"SyntheticEvent"}), N({"ModifierKey",
               "NativeTouchEvent", "TouchList"}))
      [] t = <<"React", "UIEvent">> -> D(540, 544, N({"SyntheticEvent"}), N({"AbstractView",
               "NativeUIEvent"}))
      [] t = <<"React", "WheelEvent">> -> D(546, 552, N({"MouseEvent"}),
               N({"NativeWheelEvent"}))
      [] t = <<"React", "AnimationEvent">> -> D(554, 559, N({"SyntheticEvent"}),
               N({"NativeAnimationEvent"}))
      [] t = <<"React", "TransitionEvent">> -> D(561, 566, N({"SyntheticEvent"}),
               N({"NativeTransitionEvent"}))
      [] t = <<"React", "EventHandler">> -> D(572, 572, {}, N({"SyntheticEvent"}))
      [] t = <<"React", "ReactEventHandler">> -> D(574, 574, {}, N({"EventHandler",
               "SyntheticEvent"}))
      [] t = <<"React", "ClipboardEventHandler">> -> D(576, 576, {}, N({"ClipboardEvent",
               "EventHandler"}))
      [] t = <<"React", "CompositionEventHandler">> -> D(577, 577, {}, N({"CompositionEvent",
               "EventHandler"}))
      [] t = <<"React", "DragEventHandler">> -> D(578, 578, {}, N({"DragEvent",
               "EventHandler"}))
      [] t = <<"React", "FocusEventHandler">> -> D(579, 579, {}, N({"EventHandler",
               "FocusEvent"}))
      [] t = <<"React", "FormEventHandler">> -> D(580, 580, {}, N({"EventHandler",
               "FormEvent"}))
      [] t = <<"React", "ChangeEventHandler">> -> D(581, 581, {}, N({"ChangeEvent",
               "EventHandler"}))
      [] t = <<"React", "KeyboardEventHandler">> -> D(582, 582, {}, N({"EventHandler",
               "KeyboardEvent"}))
      [] t = <<"React", "MouseEventHandler">> -> D(583, 583, {}, N({"EventHandler",
               "MouseEvent"}))
      [] t = <<"React", "TouchEventHandler">> -> D(584, 584, {}, N({"EventHandler",
               "TouchEvent"}))
      [] t = <<"React", "UIEventHandler">> -> D(585, 585, {}, N({"EventHandler", "UIEvent"}))
      [] t = <<"React", "WheelEventHandler">> -> D(586, 586, {}, N({"EventHandler",
               "WheelEvent"}))
      [] t = <<"React", "AnimationEventHandler">> -> D(587, 587, {}, N({"AnimationEvent",
               "EventHandler"}))
      [] t = <<"React", "TransitionEventHandler">> -> D(588, 588, {}, N({"EventHandler",
               "TransitionEvent"}))
      [] t = <<"React", "Props">> -> D(608, 612, {}, N({"Key", "ReactNode", "Ref"}))
      [] t = <<"React", "HTMLProps">> -> D(614, 615, N({"AllHTMLAttributes",
               "ClassAttributes"}), {})
      [] t = <<"React", "DetailedHTMLProps">> -> D(617, 617, {}, N({"ClassAttributes",
               "HTMLAttributes"}))
      [] t = <<"React", "SVGProps">> -> D(619, 620, N({"ClassAttributes", "SVGAttributes"}), {})
      [] t = <<"React", "SVGLineElementAttributes">> -> D(622, 622, Q("React", {"SVGProps"}),
               {})
      [] t = <<"React", "SVGTextElementAttributes">> -> D(623, 623, Q("React", {"SVGProps"}),
               {})
      [] t = <<"React", "DOMAttributes">> -> D(625, 796, {}, N({"AnimationEventHandler",
               "ClipboardEventHandler", "CompositionEventHandler", "DragEventHandler",
               "FocusEventHandler", "FormEventHandler", "KeyboardEventHandler",
               "MouseEventHandler", "ReactEventHandler", "ReactNode", "TouchEventHandler",
               "TransitionEventHandler", "UIEventHandler", "WheelEventHandler"}))
      [] t = <<"React", "CSSWideKeyword">> -> D(801, 801, {}, {})
      [] t = <<"React", "CSSPercentage">> -> D(804, 804, {}, {})
      [] t = <<"React", "CSSLength">> -> D(807, 807, {}, {})
      [] t = <<"React", "CSSProperties">> -> D(811, 2475, {}, N({"CSSLength", "CSSPercentage",
               "CSSWideKeyword"}))
      [] t = <<"React", "AriaAttributes">> -> D(2478, 2663, {}, {})
      [] t = <<"React", "HTMLAttributes">> -> D(2665, 2740, N({"AriaAttributes",
               "DOMAttributes"}), N({"CSSProperties"}))
      [] t = <<"React", "AllHTMLAttributes">> -> D(2742, 2847, N({"HTMLAttributes"}),
               N({"CrossOrigin"}))
      [] t = <<"React", "AnchorHTMLAttributes">> -> D(2849, 2855, N({"HTMLAttributes"}), {})
      [] t = <<"React", "AudioHTMLAttributes">> -> D(2857, 2857, N({"MediaHTMLAttributes"}), {})
      [] t = <<"React", "AreaHTMLAttributes">> -> D(2859, 2868, N({"HTMLAttributes"}), {})
      [] t = <<"React", "BaseHTMLAttributes">> -> D(2870, 2873, N({"HTMLAttributes"}), {})
      [] t = <<"React", "BlockquoteHTMLAttributes">> -> D(2875, 2877, N({"HTMLAttributes"}), {})
      [] t = <<"React", "ButtonHTMLAttributes">> -> D(2879, 2890, N({"HTMLAttributes"}), {})
      [] t = <<"React", "CanvasHTMLAttributes">> -> D(2892, 2895, N({"HTMLAttributes"}), {})
      [] t = <<"React", "ColHTMLAttributes">> -> D(2897, 2899, N({"HTMLAttributes"}), {})
      [] t = <<"React", "ColgroupHTMLAttributes">> -> D(2901, 2903, N({"HTMLAttributes"}), {})
      [] t = <<"React", "DataHTMLAttributes">> -> D(2905, 2907, N({"HTMLAttributes"}), {})
      [] t = <<"React", "DetailsHTMLAttributes">> -> D(2909, 2912, N({"HTMLAttributes"}), {})
      [] t = <<"React", "DelHTMLAttributes">> -> D(2914, 2917, N({"HTMLAttributes"}), {})
      [] t = <<"React", "EmbedHTMLAttributes">> -> D(2919, 2924, N({"HTMLAttributes"}), {})
      [] t = <<"React", "FieldsetHTMLAttributes">> -> D(2926, 2930, N({"HTMLAttributes"}), {})
      [] t = <<"React", "FormHTMLAttributes">> -> D(2932, 2941, N({"HTMLAttributes"}), {})
      [] t = <<"React", "HtmlHTMLAttributes">> -> D(2943, 2945, N({"HTMLAttributes"}), {})
      [] t = <<"React", "IframeHTMLAttributes">> -> D(2947, 2961, N({"HTMLAttributes"}), {})
      [] t = <<"React", "ImgHTMLAttributes">> -> D(2963, 2972, N({"HTMLAttributes"}),
               N({"CrossOrigin"}))
      [] t = <<"React", "InsHTMLAttributes">> -> D(2974, 2977, N({"HTMLAttributes"}), {})
      [] t = <<"React", "InputHTMLAttributes">> -> D(2979, 3012, N({"HTMLAttributes"}),
               N({"ChangeEventHandler"}))
      [] t = <<"React", "KeygenHTMLAttributes">> -> D(3014, 3021, N({"HTMLAttributes"}), {})
      [] t = <<"React", "LabelHTMLAttributes">> -> D(3023, 3026, N({"HTMLAttributes"}), {})
      [] t = <<"React", "LiHTMLAttributes">> -> D(3028, 3030, N({"HTMLAttributes"}), {})
      [] t = <<"React", "LinkHTMLAttributes">> -> D(3032, 3043, N({"HTMLAttributes"}),
               N({"CrossOrigin"}))
      [] t = <<"React", "MapHTMLAttributes">> -> D(3045, 3047, N({"HTMLAttributes"}), {})
      [] t = <<"React", "MenuHTMLAttributes">> -> D(3049, 3051, N({"HTMLAttributes"}), {})
      [] t = <<"React", "MediaHTMLAttributes">> -> D(3053, 3063, N({"HTMLAttributes"}),
               N({"CrossOrigin"}))
      [] t = <<"React", "MetaHTMLAttributes">> -> D(3065, 3071, N({"HTMLAttributes"}), {})
      [] t = <<"React", "MeterHTMLAttributes">> -> D(3073, 3081, N({"HTMLAttributes"}), {})
      [] t = <<"React", "QuoteHTMLAttributes">> -> D(3083, 3085, N({"HTMLAttributes"}), {})
      [] t = <<"React", "ObjectHTMLAttributes">> -> D(3087, 3097, N({"HTMLAttributes"}), {})
      [] t = <<"React", "OlHTMLAttributes">> -> D(3099, 3102, N({"HTMLAttributes"}), {})
      [] t = <<"React", "OptgroupHTMLAttributes">> -> D(3104, 3107, N({"HTMLAttributes"}), {})
      [] t = <<"React", "OptionHTMLAttributes">> -> D(3109, 3114, N({"HTMLAttributes"}), {})
      [] t = <<"React", "OutputHTMLAttributes">> -> D(3116, 3120, N({"HTMLAttributes"}), {})
      [] t = <<"React", "ParamHTMLAttributes">> -> D(3122, 3125, N({"HTMLAttributes"}), {})
      [] t = <<"React", "ProgressHTMLAttributes">> -> D(3127, 3130, N({"HTMLAttributes"}), {})
      [] t = <<"React", "ScriptHTMLAttributes">> -> D(3132, 3141, N({"HTMLAttributes"}),
               N({"CrossOrigin"}))
      [] t = <<"React", "SelectHTMLAttributes">> -> D(3143, 3153, N({"HTMLAttributes"}),
               N({"ChangeEventHandler"}))
      [] t = <<"React", "SourceHTMLAttributes">> -> D(3155, 3161, N({"HTMLAttributes"}), {})
      [] t = <<"React", "StyleHTMLAttributes">> -> D(3163, 3168, N({"HTMLAttributes"}), {})
      [] t = <<"React", "TableHTMLAttributes">> -> D(3170, 3174, N({"HTMLAttributes"}), {})
      [] t = <<"React", "TextareaHTMLAttributes">> -> D(3176, 3193, N({"HTMLAttributes"}),
               N({"ChangeEventHandler"}))
      [] t = <<"React", "TdHTMLAttributes">> -> D(3195, 3199, N({"HTMLAttributes"}), {})
      [] t = <<"React", "ThHTMLAttributes">> -> D(3201, 3206, N({"HTMLAttributes"}), {})
      [] t = <<"React", "TimeHTMLAttributes">> -> D(3208, 3210, N({"HTMLAttributes"}), {})
      [] t = <<"React", "TrackHTMLAttributes">> -> D(3212, 3218, N({"HTMLAttributes"}), {})
      [] t = <<"React", "VideoHTMLAttributes">> -> D(3220, 3225, N({"MediaHTMLAttributes"}), {})
      [] t = <<"React", "SVGAttributes">> -> D(3235, 3513, N({"AriaAttributes",
               "DOMAttributes"}), N({"CSSProperties"}))
      [] t = <<"React", "ReactHTML">> -> D(3519, 3635, {}, N({"AnchorHTMLAttributes",
               "AreaHTMLAttributes", "AudioHTMLAttributes", "BaseHTMLAttributes",
               "BlockquoteHTMLAttributes", "ButtonHTMLAttributes", "CanvasHTMLAttributes",
               "ColHTMLAttributes", "ColgroupHTMLAttributes", "DataHTMLAttributes",
               "DelHTMLAttributes", "DetailedHTMLFactory", "DetailsHTMLAttributes",
               "EmbedHTMLAttributes", "FieldsetHTMLAttributes", "FormHTMLAttributes",
               "HTMLAnchorElement", "HTMLAreaElement", "HTMLAttributes", "HTMLAudioElement",
               "HTMLBRElement", "HTMLBaseElement", "HTMLBodyElement", "HTMLButtonElement",
               "HTMLCanvasElement", "HTMLDListElement", "HTMLDataElement",
               "HTMLDataListElement", "HTMLDivElement", "HTMLElement", "HTMLEmbedElement",
               "HTMLFieldSetElement", "HTMLFormElement", "HTMLHRElement", "HTMLHeadElement",
               "HTMLHeadingElement", "HTMLHtmlElement", "HTMLIFrameElement",
               "HTMLImageElement", "HTMLInputElement", "HTMLLIElement", "HTMLLabelElement",
               "HTMLLegendElement", "HTMLLinkElement", "HTMLMapElement", "HTMLMetaElement",
               "HTMLModElement", "HTMLOListElement", "HTMLObjectElement",
               "HTMLOptGroupElement", "HTMLOptionElement", "HTMLParagraphElement",
               "HTMLParamElement", "HTMLPreElement", "HTMLProgressElement", "HTMLQuoteElement",
               "HTMLScriptElement", "HTMLSelectElement", "HTMLSourceElement",
               "HTMLSpanElement", "HTMLStyleElement", "HTMLTableColElement",
               "HTMLTableDataCellElement", "HTMLTableElement", "HTMLTableHeaderCellElement",
               "HTMLTableRowElement", "HTMLTableSectionElement", "HTMLTemplateElement",
               "HTMLTextAreaElement", "HTMLTitleElement", "HTMLTrackElement",
               "HTMLUListElement", "HTMLVideoElement", "HtmlHTMLAttributes",
               "IframeHTMLAttributes", "ImgHTMLAttributes", "InputHTMLAttributes",
               "InsHTMLAttributes", "KeygenHTMLAttributes", "LabelHTMLAttributes",
               "LiHTMLAttributes", "LinkHTMLAttributes", "MapHTMLAttributes",
               "MenuHTMLAttributes", "MetaHTMLAttributes", "MeterHTMLAttributes",
               "ObjectHTMLAttributes", "OlHTMLAttributes", "OptgroupHTMLAttributes",
               "OptionHTMLAttributes", "OutputHTMLAttributes", "ParamHTMLAttributes",
               "ProgressHTMLAttributes", "QuoteHTMLAttributes", "ScriptHTMLAttributes",
               "SelectHTMLAttributes", "SourceHTMLAttributes", "StyleHTMLAttributes",
               "TableHTMLAttributes", "TdHTMLAttributes", "TextareaHTMLAttributes",
               "ThHTMLAttributes", "TimeHTMLAttributes", "TrackHTMLAttributes",
               "VideoHTMLAttributes", "WebViewHTMLAttributes"}))
      [] t = <<"React", "ReactSVG">> -> D(3637, 3659, {}, N({"SVGFactory"}))
      [] t = <<"React", "ReactDOM">> -> D(3661, 3661, N({"ReactHTML", "ReactSVG"}), {})
      [] t = <<"React", "Validator">> -> D(3667, 3669, {}, N({"Error"}))
      [] t = <<"React", "Requireable">> -> D(3671, 3673, N({"Validator"}), {})
      [] t = <<"React", "ValidationMap">> -> D(3675, 3675, {}, N({"Validator"}))
      [] t = <<"React", "ReactPropTypes">> -> D(3677, 3693, {}, N({"Array", "Requireable",
               "ValidationMap", "Validator"}))
      [] t = <<"React", "ReactChildren">> -> D(3699, 3706, {}, N({"ReactChild", "ReactElement",
               "ReactNode"}))
      [] t = <<"React", "AbstractView">> -> D(3713, 3716, {}, N({"Document", "StyleMedia"}))
      [] t = <<"React", "Touch">> -> D(3718, 3727, {}, N({"EventTarget"}))
      [] t = <<"React", "TouchList">> -> D(3729, 3734, {}, N({"Touch"}))
      [] t = <<"React.JSX", "Element">> -> D(3737, 3737, N({"GlobalJSXElement"}), {})
      [] t = <<"React.JSX", "ElementClass">> -> D(3738, 3738, N({"GlobalJSXElementClass"}), {})
      [] t = <<"React.JSX", "ElementAttributesProperty">> -> D(3739, 3739,
               N({"GlobalJSXElementAttributesProperty"}), {})
      [] t = <<"React.JSX", "ElementChildrenAttribute">> -> D(3740, 3740,
               N({"GlobalJSXElementChildrenAttribute"}), {})
      [] t = <<"React.JSX", "IntrinsicAttributes">> -> D(3742, 3742,
               N({"GlobalJSXIntrinsicAttributes"}), {})
      [] t = <<"React.JSX", "IntrinsicClassAttributes">> -> D(3743, 3743,
               N({"GlobalJSXIntrinsicClassAttributes"}), {})
      [] t = <<"React.JSX", "IntrinsicElements">> -> D(3744, 3744,
               N({"GlobalJSXIntrinsicElements"}), {})
      [] t = <<"global.JSX", "Element">> -> D(3753, 3753, Q("React", {"ReactElement"}), {})
      [] t = <<"global.JSX", "ElementClass">> -> D(3754, 3756, Q("React", {"Component"}),
               Q("JSX", {"Element"}))
      [] t = <<"global.JSX", "ElementAttributesProperty">> -> D(3757, 3759, {}, {})
      [] t = <<"global.JSX", "ElementChildrenAttribute">> -> D(3760, 3762, {}, {})
      [] t = <<"global.JSX", "IntrinsicAttributes">> -> D(3764, 3764, Q("React",
               {"Attributes"}), {})
      [] t = <<"global.JSX", "IntrinsicClassAttributes">> -> D(3765, 3765, Q("React",
               {"ClassAttributes"}), {})
      [] t = <<"global.JSX", "IntrinsicElements">> -> D(3767, 3943, {}, N({"HTMLAnchorElement",
               "HTMLAreaElement", "HTMLAudioElement", "HTMLBRElement", "HTMLBaseElement",
               "HTMLBodyElement", "HTMLButtonElement", "HTMLCanvasElement", "HTMLDListElement",
               "HTMLDataElement", "HTMLDataListElement", "HTMLDivElement", "HTMLElement",
               "HTMLEmbedElement", "HTMLFieldSetElement", "HTMLFormElement", "HTMLHRElement",
               "HTMLHeadElement", "HTMLHeadingElement", "HTMLHtmlElement", "HTMLIFrameElement",
               "HTMLImageElement", "HTMLInputElement", "HTMLLIElement", "HTMLLabelElement",
               "HTMLLegendElement", "HTMLLinkElement", "HTMLMapElement", "HTMLMetaElement",
               "HTMLModElement", "HTMLOListElement", "HTMLObjectElement",
               "HTMLOptGroupElement", "HTMLOptionElement", "HTMLParagraphElement",
               "HTMLParamElement", "HTMLPreElement", "HTMLProgressElement", "HTMLQuoteElement",
               "HTMLScriptElement", "HTMLSelectElement", "HTMLSourceElement",
               "HTMLSpanElement", "HTMLStyleElement", "HTMLTableColElement",
               "HTMLTableDataCellElement", "HTMLTableElement", "HTMLTableHeaderCellElement",
               "HTMLTableRowElement", "HTMLTableSectionElement", "HTMLTemplateElement",
               "HTMLTextAreaElement", "HTMLTitleElement", "HTMLTrackElement",
               "HTMLUListElement", "HTMLVideoElement", "SVGCircleElement",
               "SVGClipPathElement", "SVGDefsElement", "SVGDescElement", "SVGElement",
               "SVGEllipseElement", "SVGFEBlendElement", "SVGFEColorMatrixElement",
               "SVGFEComponentTransferElement", "SVGFECompositeElement",
               "SVGFEConvolveMatrixElement", "SVGFEDiffuseLightingElement",
               "SVGFEDisplacementMapElement", "SVGFEDistantLightElement", "SVGFEFloodElement",
               "SVGFEFuncAElement", "SVGFEFuncBElement", "SVGFEFuncGElement",
               "SVGFEFuncRElement", "SVGFEGaussianBlurElement", "SVGFEImageElement",
               "SVGFEMergeElement", "SVGFEMergeNodeElement", "SVGFEMorphologyElement",
               "SVGFEOffsetElement", "SVGFEPointLightElement", "SVGFESpecularLightingElement",
               "SVGFESpotLightElement", "SVGFETileElement", "SVGFETurbulenceElement",
               "SVGFilterElement", "SVGForeignObjectElement", "SVGGElement", "SVGImageElement",
               "SVGLineElement", "SVGLinearGradientElement", "SVGMarkerElement",
               "SVGMaskElement", "SVGMetadataElement", "SVGPathElement", "SVGPatternElement",
               "SVGPolygonElement", "SVGPolylineElement", "SVGRadialGradientElement",
               "SVGRectElement", "SVGSVGElement", "SVGStopElement", "SVGSwitchElement",
               "SVGSymbolElement", "SVGTSpanElement", "SVGTextElement", "SVGTextPathElement",
               "SVGUseElement", "SVGViewElement"}) \cup Q("React", {"AnchorHTMLAttributes",
               "AreaHTMLAttributes", "AudioHTMLAttributes", "BaseHTMLAttributes",
               "BlockquoteHTMLAttributes", "ButtonHTMLAttributes", "CanvasHTMLAttributes",
               "ColHTMLAttributes", "ColgroupHTMLAttributes", "DataHTMLAttributes",
               "DelHTMLAttributes", "DetailedHTMLFactory", "DetailedHTMLProps",
               "DetailsHTMLAttributes", "EmbedHTMLAttributes", "FieldsetHTMLAttributes",
               "FormHTMLAttributes", "HTMLAttributes", "HtmlHTMLAttributes",
               "IframeHTMLAttributes", "ImgHTMLAttributes", "InputHTMLAttributes",
               "InsHTMLAttributes", "KeygenHTMLAttributes", "LabelHTMLAttributes",
               "LiHTMLAttributes", "LinkHTMLAttributes", "MapHTMLAttributes",
               "MenuHTMLAttributes", "MetaHTMLAttributes", "MeterHTMLAttributes",
               "ObjectHTMLAttributes", "OlHTMLAttributes", "OptgroupHTMLAttributes",
               "OptionHTMLAttributes", "OutputHTMLAttributes", "ParamHTMLAttributes",
               "ProgressHTMLAttributes", "QuoteHTMLAttributes", "SVGLineElementAttributes",
               "SVGProps", "SVGTextElementAttributes", "ScriptHTMLAttributes",
               "SelectHTMLAttributes", "SourceHTMLAttributes", "StyleHTMLAttributes",
               "TableHTMLAttributes", "TdHTMLAttributes", "TextareaHTMLAttributes",
               "ThHTMLAttributes", "TimeHTMLAttributes", "TrackHTMLAttributes",
               "VideoHTMLAttributes", "WebViewHTMLAttributes"}))
      [] t = <<"", "GlobalJSXElement">> -> D(3950, 3950, Q("JSX", {"Element"}), {})
      [] t = <<"", "GlobalJSXElementClass">> -> D(3951, 3951, Q("JSX", {"ElementClass"}), {})
      [] t = <<"", "GlobalJSXElementAttributesProperty">> -> D(3952, 3952, Q("JSX",
               {"ElementAttributesProperty"}), {})
      [] t = <<"", "GlobalJSXElementChildrenAttribute">> -> D(3953, 3953, Q("JSX",
               {"ElementChildrenAttribute"}), {})
      [] t = <<"", "GlobalJSXIntrinsicAttributes">> -> D(3955, 3955, Q("JSX",
               {"IntrinsicAttributes"}), {})
      [] t = <<"", "GlobalJSXIntrinsicClassAttributes">> -> D(3956, 3956, Q("JSX",
               {"IntrinsicClassAttributes"}), {})
      [] t = <<"", "GlobalJSXIntrinsicElements">> -> D(3958, 3958, Q("JSX",
               {"IntrinsicElements"}), {})

\* The references of the function and const declarations of namespace React
\* (createClass, createFactory, createElement, cloneElement, isValidElement,
\* DOM, PropTypes, Children, version).
ApiRefs ==
    N({"Attributes", "CElement", "CFactory", "ClassAttributes", "ClassType",
        "ClassicComponent", "ClassicComponentClass", "Component", "ComponentClass",
        "ComponentSpec", "ComponentState", "DOMAttributes", "DOMElement", "DOMFactory",
        "DetailedReactHTMLElement", "Element", "Factory", "HTMLAttributes", "HTMLElement",
        "HTMLFactory", "HTMLInputElement", "InputHTMLAttributes", "ReactChildren", "ReactDOM",
        "ReactElement", "ReactHTML", "ReactHTMLElement", "ReactNode", "ReactPropTypes",
        "ReactSVG", "ReactSVGElement", "SFC", "SFCElement", "SFCFactory", "SVGAttributes",
        "SVGElement", "SVGFactory"})

\* Variant: the scopes of the module do not see the declarations of
\* 'declare global'.
ChainModuleOnly(scope) ==
    CASE scope = "React.JSX"  -> <<"React.JSX", "React", "">>
      [] scope = "React"      -> <<"React", "">>
      [] scope = "global.JSX" -> <<"global.JSX", "global", "">>
      [] OTHER                -> <<"">>

\* The scopes searched for a name used in a scope, innermost first.  The
\* declare global block is written inside the module, so the module's own top
\* level is visible from it.
Chain(scope) ==
    CASE scope = "React.JSX"  -> <<"React.JSX", "React", "", "global">>
      [] scope = "React"      -> <<"React", "", "global">>
      [] scope = "global.JSX" -> <<"global.JSX", "global", "">>
      [] OTHER                -> <<"", "global">>

\* The namespace called q that is declared directly in scope s.
NamespaceIn(s, q) ==
    CASE s = ""       /\ q = "React" -> "React"
      [] s = "React"  /\ q = "JSX"   -> "React.JSX"
      [] s = "global" /\ q = "JSX"   -> "global.JSX"
      [] OTHER                       -> "none"

\* What a reference resolves to when no scope of the file declares it.
Outside(ref) == <<"outside", ref[2]>>

\* Name resolution: the first scope of the chain, from position i on, that
\* declares the name (a bare name) or the qualifying namespace (a qualified
\* name) decides.
RECURSIVE ResolveFrom(_, _, _)
ResolveFrom(chain, i, ref) ==
    IF i > Len(chain) THEN Outside(ref)
    ELSE LET s  == chain[i]
             ns == IF ref[1] = "" THEN s ELSE NamespaceIn(s, ref[1])
         IN  IF ns # "none" /\ <<ns, ref[2]>> \in Types THEN <<ns, ref[2]>>
             ELSE IF ns # "none" /\ ref[1] # "" THEN Outside(ref)
             ELSE ResolveFrom(chain, i + 1, ref)

\* The declared type a reference written in a scope resolves to, or Outside.
Resolve(scope, ref) == ResolveFrom(Chain(scope), 1, ref)

\* 'A extends B': the declared types named in the extends clause of A.
Extends(t) == {Resolve(t[1], r) : r \in TypeDecl(t).extends} \cap Types

\* 'A mentions B in its definition': the declared types A refers to.
Mentions(t) == {Resolve(t[1], r) : r \in TypeDecl(t).refs} \cap Types

\* Variant: a walk of either kind follows every reference.
EdgesAllRefs(kind, t) == Mentions(t)

Edges(kind, t) == IF kind = "extends" THEN Extends(t) ELSE Mentions(t)

EdgeKinds == {"mentions", "extends"}

\* The interfaces whose members the model holds: those of the JSX namespaces
\* and what they extend, and the tag tables ReactHTML, ReactSVG and ReactDOM.
MemberTypes == {
    <<"React", "Attributes">>,
    <<"React", "ClassAttributes">>,
    <<"React", "ReactElement">>,
    <<"React", "Component">>,
    <<"React", "ComponentLifecycle">>,
    <<"React", "ReactHTML">>,
    <<"React", "ReactSVG">>,
    <<"React", "ReactDOM">>,
    <<"React.JSX", "Element">>,
    <<"React.JSX", "ElementClass">>,
    <<"React.JSX", "ElementAttributesProperty">>,
    <<"React.JSX", "ElementChildrenAttribute">>,
    <<"React.JSX", "IntrinsicAttributes">>,
    <<"React.JSX", "IntrinsicClassAttributes">>,
    <<"React.JSX", "IntrinsicElements">>,
    <<"global.JSX", "Element">>,
    <<"global.JSX", "ElementClass">>,
    <<"global.JSX", "ElementAttributesProperty">>,
    <<"global.JSX", "ElementChildrenAttribute">>,
    <<"global.JSX", "IntrinsicAttributes">>,
    <<"global.JSX", "IntrinsicClassAttributes">>,
    <<"global.JSX", "IntrinsicElements">>,
    <<"", "GlobalJSXElement">>,
    <<"", "GlobalJSXElementClass">>,
    <<"", "GlobalJSXElementAttributesProperty">>,
    <<"", "GlobalJSXElementChildrenAttribute">>,
    <<"", "GlobalJSXIntrinsicAttributes">>,
    <<"", "GlobalJSXIntrinsicClassAttributes">>,
    <<"", "GlobalJSXIntrinsicElements">>
}


\* The members an interface declares in its own body, as <<name, type>>: type
\* is the head of the member's type annotation ("method" for a method, "{}"
\* for an object type).
OwnMembers(t) ==
    CASE t = <<"React", "Attributes">> -> 
        {<<"key", "Key">>}
      [] t = <<"React", "ClassAttributes">> -> 
        {<<"ref", "Ref">>}
      [] t = <<"React", "ReactElement">> -> 
        {<<"type", "string">>, <<"props", "P">>, <<"key", "Key">>}
      [] t = <<"React", "Component">> -> 
        {<<"setState", "method">>, <<"forceUpdate", "method">>, <<"render", "method">>,
         <<"props", "Readonly">>, <<"state", "Readonly">>, <<"context", "any">>,
         <<"refs", "{}">>}
      [] t = <<"React", "ComponentLifecycle">> -> 
        {<<"componentWillMount", "method">>, <<"componentDidMount", "method">>,
         <<"componentWillReceiveProps", "method">>, <<"shouldComponentUpdate", "method">>,
         <<"componentWillUpdate", "method">>, <<"componentDidUpdate", "method">>,
         <<"componentWillUnmount", "method">>}
      [] t = <<"React", "ReactHTML">> -> 
        {<<"a", "DetailedHTMLFactory">>, <<"abbr", "DetailedHTMLFactory">>,
         <<"address", "DetailedHTMLFactory">>, <<"area", "DetailedHTMLFactory">>,
         <<"article", "DetailedHTMLFactory">>, <<"aside", "DetailedHTMLFactory">>,
         <<"audio", "DetailedHTMLFactory">>, <<"b", "DetailedHTMLFactory">>,
         <<"base", "DetailedHTMLFactory">>, <<"bdi", "DetailedHTMLFactory">>,
         <<"bdo", "DetailedHTMLFactory">>, <<"big", "DetailedHTMLFactory">>,
         <<"blockquote", "DetailedHTMLFactory">>, <<"body", "DetailedHTMLFactory">>,
         <<"br", "DetailedHTMLFactory">>, <<"button", "DetailedHTMLFactory">>,
         <<"canvas", "DetailedHTMLFactory">>, <<"caption", "DetailedHTMLFactory">>,
         <<"cite", "DetailedHTMLFactory">>, <<"code", "DetailedHTMLFactory">>,
         <<"col", "DetailedHTMLFactory">>, <<"colgroup", "DetailedHTMLFactory">>,
         <<"data", "DetailedHTMLFactory">>, <<"datalist", "DetailedHTMLFactory">>,
         <<"dd", "DetailedHTMLFactory">>, <<"del", "DetailedHTMLFactory">>,
         <<"details", "DetailedHTMLFactory">>, <<"dfn", "DetailedHTMLFactory">>,
         <<"dialog", "DetailedHTMLFactory">>, <<"div", "DetailedHTMLFactory">>,
         <<"dl", "DetailedHTMLFactory">>, <<"dt", "DetailedHTMLFactory">>,
         <<"em", "DetailedHTMLFactory">>, <<"embed", "DetailedHTMLFactory">>,
         <<"fieldset", "DetailedHTMLFactory">>, <<"figcaption", "DetailedHTMLFactory">>,
         <<"figure", "DetailedHTMLFactory">>, <<"footer", "DetailedHTMLFactory">>,
         <<"form", "DetailedHTMLFactory">>, <<"h1", "DetailedHTMLFactory">>,
         <<"h2", "DetailedHTMLFactory">>, <<"h3", "DetailedHTMLFactory">>,
         <<"h4", "DetailedHTMLFactory">>, <<"h5", "DetailedHTMLFactory">>,
         <<"h6", "DetailedHTMLFactory">>, <<"head", "DetailedHTMLFactory">>,
         <<"header", "DetailedHTMLFactory">>, <<"hgroup", "DetailedHTMLFactory">>,
         <<"hr", "DetailedHTMLFactory">>, <<"html", "DetailedHTMLFactory">>,
         <<"i", "DetailedHTMLFactory">>, <<"iframe", "DetailedHTMLFactory">>,
         <<"img", "DetailedHTMLFactory">>, <<"input", "DetailedHTMLFactory">>,
         <<"ins", "DetailedHTMLFactory">>, <<"kbd", "DetailedHTMLFactory">>,
         <<"keygen", "DetailedHTMLFactory">>, <<"label", "DetailedHTMLFactory">>,
         <<"legend", "DetailedHTMLFactory">>, <<"li", "DetailedHTMLFactory">>,
         <<"link", "DetailedHTMLFactory">>, <<"main", "DetailedHTMLFactory">>,
         <<"map", "DetailedHTMLFactory">>, <<"mark", "DetailedHTMLFactory">>,
         <<"menu", "DetailedHTMLFactory">>, <<"menuitem", "DetailedHTMLFactory">>,
         <<"meta", "DetailedHTMLFactory">>, <<"meter", "DetailedHTMLFactory">>,
         <<"nav", "DetailedHTMLFactory">>, <<"noscript", "DetailedHTMLFactory">>,
         <<"object", "DetailedHTMLFactory">>, <<"ol", "DetailedHTMLFactory">>,
         <<"optgroup", "DetailedHTMLFactory">>, <<"option", "DetailedHTMLFactory">>,
         <<"output", "DetailedHTMLFactory">>, <<"p", "DetailedHTMLFactory">>,
         <<"param", "DetailedHTMLFactory">>, <<"picture", "DetailedHTMLFactory">>,
         <<"pre", "DetailedHTMLFactory">>, <<"progress", "DetailedHTMLFactory">>,
         <<"q", "DetailedHTMLFactory">>, <<"rp", "DetailedHTMLFactory">>,
         <<"rt", "DetailedHTMLFactory">>, <<"ruby", "DetailedHTMLFactory">>,
         <<"s", "DetailedHTMLFactory">>, <<"samp", "DetailedHTMLFactory">>,
         <<"script", "DetailedHTMLFactory">>, <<"section", "DetailedHTMLFactory">>,
         <<"select", "DetailedHTMLFactory">>, <<"small", "DetailedHTMLFactory">>,
         <<"source", "DetailedHTMLFactory">>, <<"span", "DetailedHTMLFactory">>,
         <<"strong", "DetailedHTMLFactory">>, <<"style", "DetailedHTMLFactory">>,
         <<"sub", "DetailedHTMLFactory">>, <<"summary", "DetailedHTMLFactory">>,
         <<"sup", "DetailedHTMLFactory">>, <<"table", "DetailedHTMLFactory">>,
         <<"template", "DetailedHTMLFactory">>, <<"tbody", "DetailedHTMLFactory">>,
         <<"td", "DetailedHTMLFactory">>, <<"textarea", "DetailedHTMLFactory">>,
         <<"tfoot", "DetailedHTMLFactory">>, <<"th", "DetailedHTMLFactory">>,
         <<"thead", "DetailedHTMLFactory">>, <<"time", "DetailedHTMLFactory">>,
         <<"title", "DetailedHTMLFactory">>, <<"tr", "DetailedHTMLFactory">>,
         <<"track", "DetailedHTMLFactory">>, <<"u", "DetailedHTMLFactory">>,
         <<"ul", "DetailedHTMLFactory">>, <<"var", "DetailedHTMLFactory">>,
         <<"video", "DetailedHTMLFactory">>, <<"wbr", "DetailedHTMLFactory">>,
         <<"webview", "DetailedHTMLFactory">>}
      [] t = <<"React", "ReactSVG">> -> 
        {<<"svg", "SVGFactory">>, <<"animate", "SVGFactory">>, <<"circle", "SVGFactory">>,
         <<"defs", "SVGFactory">>, <<"ellipse", "SVGFactory">>, <<"g", "SVGFactory">>,
         <<"image", "SVGFactory">>, <<"line", "SVGFactory">>,
         <<"linearGradient", "SVGFactory">>, <<"mask", "SVGFactory">>,
         <<"path", "SVGFactory">>, <<"pattern", "SVGFactory">>,
         <<"polygon", "SVGFactory">>, <<"polyline", "SVGFactory">>,
         <<"radialGradient", "SVGFactory">>, <<"rect", "SVGFactory">>,
         <<"stop", "SVGFactory">>, <<"symbol", "SVGFactory">>, <<"text", "SVGFactory">>,
         <<"tspan", "SVGFactory">>, <<"use", "SVGFactory">>}
      [] t = <<"React", "ReactDOM">> -> {}
      [] t = <<"React.JSX", "Element">> -> {}
      [] t = <<"React.JSX", "ElementClass">> -> {}
      [] t = <<"React.JSX", "ElementAttributesProperty">> -> {}
      [] t = <<"React.JSX", "ElementChildrenAttribute">> -> {}
      [] t = <<"React.JSX", "IntrinsicAttributes">> -> {}
      [] t = <<"React.JSX", "IntrinsicClassAttributes">> -> {}
      [] t = <<"React.JSX", "IntrinsicElements">> -> {}
      [] t = <<"global.JSX", "Element">> -> {}
      [] t = <<"global.JSX", "ElementClass">> -> 
        {<<"render", "method">>}
      [] t = <<"global.JSX", "ElementAttributesProperty">> -> 
        {<<"props", "{}">>}
      [] t = <<"global.JSX", "ElementChildrenAttribute">> -> 
        {<<"children", "{}">>}
      [] t = <<"global.JSX", "IntrinsicAttributes">> -> {}
      [] t = <<"global.JSX", "IntrinsicClassAttributes">> -> {}
      [] t = <<"global.JSX", "IntrinsicElements">> -> 
        {<<"a", "DetailedHTMLProps">>, <<"abbr", "DetailedHTMLProps">>,
         <<"address", "DetailedHTMLProps">>, <<"area", "DetailedHTMLProps">>,
         <<"article", "DetailedHTMLProps">>, <<"aside", "DetailedHTMLProps">>,
         <<"audio", "DetailedHTMLProps">>, <<"b", "DetailedHTMLProps">>,
         <<"base", "DetailedHTMLProps">>, <<"bdi", "DetailedHTMLProps">>,
         <<"bdo", "DetailedHTMLProps">>, <<"big", "DetailedHTMLProps">>,
         <<"blockquote", "DetailedHTMLProps">>, <<"body", "DetailedHTMLProps">>,
         <<"br", "DetailedHTMLProps">>, <<"button", "DetailedHTMLProps">>,
         <<"canvas", "DetailedHTMLProps">>, <<"caption", "DetailedHTMLProps">>,
         <<"cite", "DetailedHTMLProps">>, <<"code", "DetailedHTMLProps">>,
         <<"col", "DetailedHTMLProps">>, <<"colgroup", "DetailedHTMLProps">>,
         <<"data", "DetailedHTMLProps">>, <<"datalist", "DetailedHTMLProps">>,
         <<"dd", "DetailedHTMLProps">>, <<"del", "DetailedHTMLProps">>,
         <<"details", "DetailedHTMLProps">>, <<"dfn", "DetailedHTMLProps">>,
         <<"dialog", "DetailedHTMLProps">>, <<"div", "DetailedHTMLProps">>,
         <<"dl", "DetailedHTMLProps">>, <<"dt", "DetailedHTMLProps">>,
         <<"em", "DetailedHTMLProps">>, <<"embed", "DetailedHTMLProps">>,
         <<"fieldset", "DetailedHTMLProps">>, <<"figcaption", "DetailedHTMLProps">>,
         <<"figure", "DetailedHTMLProps">>, <<"footer", "DetailedHTMLProps">>,
         <<"form", "DetailedHTMLProps">>, <<"h1", "DetailedHTMLProps">>,
         <<"h2", "DetailedHTMLProps">>, <<"h3", "DetailedHTMLProps">>,
         <<"h4", "DetailedHTMLProps">>, <<"h5", "DetailedHTMLProps">>,
         <<"h6", "DetailedHTMLProps">>, <<"head", "DetailedHTMLProps">>,
         <<"header", "DetailedHTMLProps">>, <<"hgroup", "DetailedHTMLProps">>,
         <<"hr", "DetailedHTMLProps">>, <<"html", "DetailedHTMLProps">>,
         <<"i", "DetailedHTMLProps">>, <<"iframe", "DetailedHTMLProps">>,
         <<"img", "DetailedHTMLProps">>, <<"input", "DetailedHTMLProps">>,
         <<"ins", "DetailedHTMLProps">>, <<"kbd", "DetailedHTMLProps">>,
         <<"keygen", "DetailedHTMLProps">>, <<"label", "DetailedHTMLProps">>,
         <<"legend", "DetailedHTMLProps">>, <<"li", "DetailedHTMLProps">>,
         <<"link", "DetailedHTMLProps">>, <<"main", "DetailedHTMLProps">>,
         <<"map", "DetailedHTMLProps">>, <<"mark", "DetailedHTMLProps">>,
         <<"menu", "DetailedHTMLProps">>, <<"menuitem", "DetailedHTMLProps">>,
         <<"meta", "DetailedHTMLProps">>, <<"meter", "DetailedHTMLProps">>,
         <<"nav", "DetailedHTMLProps">>, <<"noindex", "DetailedHTMLProps">>,
         <<"noscript", "DetailedHTMLProps">>, <<"object", "DetailedHTMLProps">>,
         <<"ol", "DetailedHTMLProps">>, <<"optgroup", "DetailedHTMLProps">>,
         <<"option", "DetailedHTMLProps">>, <<"output", "DetailedHTMLProps">>,
         <<"p", "DetailedHTMLProps">>, <<"param", "DetailedHTMLProps">>,
         <<"picture", "DetailedHTMLProps">>, <<"pre", "DetailedHTMLProps">>,
         <<"progress", "DetailedHTMLProps">>, <<"q", "DetailedHTMLProps">>,
         <<"rp", "DetailedHTMLProps">>, <<"rt", "DetailedHTMLProps">>,
         <<"ruby", "DetailedHTMLProps">>, <<"s", "DetailedHTMLProps">>,
         <<"samp", "DetailedHTMLProps">>, <<"script", "DetailedHTMLProps">>,
         <<"section", "DetailedHTMLProps">>, <<"select", "DetailedHTMLProps">>,
         <<"small", "DetailedHTMLProps">>, <<"source", "DetailedHTMLProps">>,
         <<"span", "DetailedHTMLProps">>, <<"strong", "DetailedHTMLProps">>,
         <<"style", "DetailedHTMLProps">>, <<"sub", "DetailedHTMLProps">>,
         <<"summary", "DetailedHTMLProps">>, <<"sup", "DetailedHTMLProps">>,
         <<"table", "DetailedHTMLProps">>, <<"template", "DetailedHTMLFactory">>,
         <<"tbody", "DetailedHTMLProps">>, <<"td", "DetailedHTMLProps">>,
         <<"textarea", "DetailedHTMLProps">>, <<"tfoot", "DetailedHTMLProps">>,
         <<"th", "DetailedHTMLProps">>, <<"thead", "DetailedHTMLProps">>,
         <<"time", "DetailedHTMLProps">>, <<"title", "DetailedHTMLProps">>,
         <<"tr", "DetailedHTMLProps">>, <<"track", "DetailedHTMLProps">>,
         <<"u", "DetailedHTMLProps">>, <<"ul", "DetailedHTMLProps">>,
         <<"var", "DetailedHTMLProps">>, <<"video", "DetailedHTMLProps">>,
         <<"wbr", "DetailedHTMLProps">>, <<"webview", "DetailedHTMLProps">>,
         <<"svg", "SVGProps">>, <<"animate", "SVGProps">>,
         <<"animateTransform", "SVGProps">>, <<"circle", "SVGProps">>,
         <<"clipPath", "SVGProps">>, <<"defs", "SVGProps">>, <<"desc", "SVGProps">>,
         <<"ellipse", "SVGProps">>, <<"feBlend", "SVGProps">>,
         <<"feColorMatrix", "SVGProps">>, <<"feComponentTransfer", "SVGProps">>,
         <<"feComposite", "SVGProps">>, <<"feConvolveMatrix", "SVGProps">>,
         <<"feDiffuseLighting", "SVGProps">>, <<"feDisplacementMap", "SVGProps">>,
         <<"feDistantLight", "SVGProps">>, <<"feFlood", "SVGProps">>,
         <<"feFuncA", "SVGProps">>, <<"feFuncB", "SVGProps">>, <<"feFuncG", "SVGProps">>,
         <<"feFuncR", "SVGProps">>, <<"feGaussianBlur", "SVGProps">>,
         <<"feImage", "SVGProps">>, <<"feMerge", "SVGProps">>,
         <<"feMergeNode", "SVGProps">>, <<"feMorphology", "SVGProps">>,
         <<"feOffset", "SVGProps">>, <<"fePointLight", "SVGProps">>,
         <<"feSpecularLighting", "SVGProps">>, <<"feSpotLight", "SVGProps">>,
         <<"feTile", "SVGProps">>, <<"feTurbulence", "SVGProps">>,
         <<"filter", "SVGProps">>, <<"foreignObject", "SVGProps">>, <<"g", "SVGProps">>,
         <<"image", "SVGProps">>, <<"line", "SVGLineElementAttributes">>,
         <<"linearGradient", "SVGProps">>, <<"marker", "SVGProps">>,
         <<"mask", "SVGProps">>, <<"metadata", "SVGProps">>, <<"path", "SVGProps">>,
         <<"pattern", "SVGProps">>, <<"polygon", "SVGProps">>, <<"polyline", "SVGProps">>,
         <<"radialGradient", "SVGProps">>, <<"rect", "SVGProps">>, <<"stop", "SVGProps">>,
         <<"switch", "SVGProps">>, <<"symbol", "SVGProps">>,
         <<"text", "SVGTextElementAttributes">>, <<"textPath", "SVGProps">>,
         <<"tspan", "SVGProps">>, <<"use", "SVGProps">>, <<"view", "SVGProps">>}
      [] t = <<"", "GlobalJSXElement">> -> {}
      [] t = <<"", "GlobalJSXElementClass">> -> {}
      [] t = <<"", "GlobalJSXElementAttributesProperty">> -> {}
      [] t = <<"", "GlobalJSXElementChildrenAttribute">> -> {}
      [] t = <<"", "GlobalJSXIntrinsicAttributes">> -> {}
      [] t = <<"", "GlobalJSXIntrinsicClassAttributes">> -> {}
      [] t = <<"", "GlobalJSXIntrinsicElements">> -> {}

\* The members of an interface: its own, those merged into it by the given
\* declarations of the same interface elsewhere (added, a set of <<interface,
\* member>>), and those of the interfaces it extends.
RECURSIVE Members(_, _)
Members(t, added) ==
    OwnMembers(t) \cup {a[2] : a \in {b \in added : b[1] = t}}
                  \cup UNION {Members(u, added) : u \in Extends(t)}

\* Variant: keyof of a tag table gives the keys of ReactDOM, which merges the
\* tables.
KeyOfMerged(t) == {m[1] : m \in Members(<<"React", "ReactDOM">>, {})}

\* The keys of an interface, keyof I.
KeyOf(t) == {m[1] : m \in Members(t, {})}

-----------------------------------------------------------------------------
(***************************************************************************)
(* The declaration file: element types and the overloaded top-level API    *)
(***************************************************************************)

HTMLKeys == KeyOf(<<"React", "ReactHTML">>)

SVGKeys == KeyOf(<<"React", "ReactSVG">>)

\* The string values of the model: the tags of the two tables and one tag of
\* a custom web component (the "string fallback" of line 99).
Strings == HTMLKeys \cup SVGKeys \cup {"my-element"}

\* A type is held as the set of its values; a component class and a stateless
\* functional component are one value each.
Components == {"ComponentClass", "SFC"}

\* The element interfaces are those of lines 81-115; CElement is an alias of
\* ComponentElement (line 91).
ElementInterface(name) == IF name = "CElement" THEN "ComponentElement" ELSE name

\* The interface an element interface extends ("none": ReactElement).
ElementParent(e) ==
    IF Extends(<<"React", e>>) = {} THEN "none"
    ELSE (CHOOSE u \in Extends(<<"React", e>>) : TRUE)[2]

\* The element interfaces that declare the member `type` in their own body.
DeclaresType ==
    {"ReactElement", "SFCElement", "ComponentElement", "DOMElement",
     "DetailedReactHTMLElement", "ReactSVGElement"}

\* The type of the member `type` as the body of the interface declares it.
OwnTypeField(e) ==
    CASE e = "ReactElement"             -> Strings \cup Components
      [] e = "SFCElement"               -> {"SFC"}
      [] e = "ComponentElement"         -> {"ComponentClass"}
      [] e = "DOMElement"               -> Strings
      [] e = "DetailedReactHTMLElement" -> HTMLKeys
      [] e = "ReactSVGElement"          -> SVGKeys

\* The type of the member `type` of an element interface: its own declaration
\* overrides the inherited one.
RECURSIVE TypeField(_)
TypeField(e) == IF e \in DeclaresType THEN OwnTypeField(e) ELSE TypeField(ElementParent(e))

\* The member `ref` of an element interface: required on DOMElement (line
\* 102), optional on ComponentElement (line 94), inherited below them and
\* absent elsewhere.
RECURSIVE RefField(_)
RefField(e) ==
    CASE e = "DOMElement"       -> "required"
      [] e = "ComponentElement" -> "optional"
      [] e = "none"             -> "absent"
      [] OTHER                  -> RefField(ElementParent(e))

\* An element of interface a can be passed where interface b is expected: the
\* values of a's `type` are values of b's, and a required `ref` is there.
ElementFits(a, b) ==
    /\ TypeField(a) \subseteq TypeField(b)
    /\ RefField(b) = "required" => RefField(a) = "required"

\* The interfaces an interface extends, directly or not, and itself.
RECURSIVE Ancestors(_)
Ancestors(t) == {t} \cup UNION {Ancestors(u) : u \in Extends(t)}

\* Props type a meets the bound 'extends b' of a type parameter by declaration.
MeetsBound(a, b) == b = "none" \/ <<"React", b>> \in Ancestors(<<"React", a>>)

\* The object types of the example in the header (lines 20-36), as the map
\* from property to "required" or "optional":
\*   ButtonProps           interface ButtonProps { label: string; isDisabled?: boolean }
\*   <<line, FALSE>>       the type of the object literal of that line
\*   <<line, TRUE>>        the type that literal is cast to
ButtonProps == [label |-> "required", isDisabled |-> "optional"]

PropsArgType(line, cast) ==
    CASE line = 25 /\ ~cast -> [label |-> "required"]
      [] line = 29 /\ ~cast -> [isDisabled |-> "required"]
      [] line = 29 /\ cast  -> [isDisabled |-> "optional"]
      [] line = 32 /\ ~cast -> [ref |-> "required"]
      [] line = 32 /\ cast  -> [key |-> "optional", ref |-> "optional"]
      [] line = 33 /\ ~cast -> [key |-> "required", isDisabled |-> "required"]
      [] line = 33 /\ cast  -> [key |-> "optional", isDisabled |-> "optional"]

\* The props arguments of cloneElement: none (line 0), or one of the above.
NoProps == [line |-> 0, cast |-> FALSE]

PropsArgs ==
    {NoProps, [line |-> 25, cast |-> FALSE]}
      \cup {[line |-> l, cast |-> c] : l \in {29, 32, 33}, c \in BOOLEAN}

\* 'P extends Q' for object types: every property Q requires is a required
\* property of P, and a property Q holds as optional is optional to P too.
Assignable(p, q) ==
    \A n \in DOMAIN q :
      IF q[n] = "required" THEN n \in DOMAIN p /\ p[n] = "required" ELSE TRUE

\* One overload: its line, the type of its first parameter, the bound of its
\* type parameter P ("none": unbounded), how its props parameter is typed
\* ("P", "Q" with P extends Q, "fixed": without a type parameter, "none": no
\* such parameter) and its result type.
Overload(line, param, bound, props, result) ==
    [line |-> line, param |-> param, bound |-> bound, props |-> props, result |-> result]

\* The overloads of createFactory, in declaration order (lines 189-207).
createFactory == <<
    Overload(189, "keyof ReactHTML", "none", "none", "HTMLFactory<T>"),
    Overload(192, "keyof ReactSVG", "none", "none", "SVGFactory"),
    Overload(195, "string", "DOMAttributes", "none", "DOMFactory<P, T>"),
    Overload(200, "SFC", "none", "none", "SFCFactory<P>"),
    Overload(201, "ClassType", "none", "none",
             "CFactory<P, ClassicComponent<P, ComponentState>>"),
    Overload(204, "ClassType", "none", "none", "CFactory<P, T>"),
    Overload(207, "ComponentClass", "none", "none", "Factory<P>") >>

\* The overloads of createElement, in declaration order (lines 211-253).
createElement == <<
    Overload(211, "input", "none", "fixed",
             "DetailedReactHTMLElement<InputHTMLAttributes<HTMLInputElement>, HTMLInputElement>"),
    Overload(217, "keyof ReactHTML", "HTMLAttributes", "P",
             "DetailedReactHTMLElement<P, T>"),
    Overload(222, "keyof ReactSVG", "SVGAttributes", "P", "ReactSVGElement"),
    Overload(227, "string", "DOMAttributes", "P", "DOMElement<P, T>"),
    Overload(234, "SFC", "none", "P", "SFCElement<P>"),
    Overload(239, "ClassType", "none", "P",
             "CElement<P, ClassicComponent<P, ComponentState>>"),
    Overload(244, "ClassType", "none", "P", "CElement<P, T>"),
    Overload(249, "SFC | ComponentClass | string", "none", "P", "ReactElement<P>") >>

\* The overloads of cloneElement, in declaration order (lines 257-296).
cloneElement == <<
    Overload(257, "DetailedReactHTMLElement", "HTMLAttributes", "P",
             "DetailedReactHTMLElement<P, T>"),
    Overload(263, "ReactHTMLElement", "HTMLAttributes", "P", "ReactHTMLElement<T>"),
    Overload(269, "ReactSVGElement", "SVGAttributes", "P", "ReactSVGElement"),
    Overload(275, "DOMElement", "DOMAttributes", "P", "DOMElement<P, T>"),
    Overload(282, "SFCElement", "none", "Q", "SFCElement<P>"),
    Overload(287, "CElement", "none", "Q", "CElement<P, T>"),
    Overload(292, "ReactElement", "none", "Q", "ReactElement<P>") >>

\* Variant: the DOMElement overload of cloneElement is tried first.
OverloadsDOMFirst(fn) ==
    CASE fn = "createFactory" -> createFactory
      [] fn = "createElement" -> createElement
      [] fn = "cloneElement"  ->
           <<cloneElement[4]>> \o SubSeq(cloneElement, 1, 3) \o SubSeq(cloneElement, 5, 7)

\* The overloads of a function, in the order the type checker tries them.
Overloads(fn) ==
    CASE fn = "createFactory" -> createFactory
      [] fn = "createElement" -> createElement
      [] fn = "cloneElement"  -> cloneElement


-----------------------------------------------------------------------------
(***************************************************************************)
(* The function-like declarations of the three files                       *)
(***************************************************************************)

\* body is "none" (a signature), "block" (a body of stmts statements) or
\* "expr" (an arrow function whose body is an expression).
Fn(file, line, kind, name, body, stmts) ==
    [file |-> file, line |-> line, kind |-> kind, name |-> name, body |-> body,
     stmts |-> stmts]

\* A signature of the declaration file.  kind is "function", "method",
\* "constructor", "construct" (a construct signature) or "call" (a call signature).
Sig(line, kind, name) == Fn("index.d.ts", line, kind, name, "none", 0)

\* The constructor of TestObject (part_000 lines 5-8) and the four callbacks of
\* the yazl fixture.
FixtureFunctions == <<
    Fn("part_000",      5,  "constructor", "constructor", "block", 2),
    Fn("yazl-tests.ts", 13, "arrow",       "error",       "block", 1),
    Fn("yazl-tests.ts", 17, "arrow",       "close",       "block", 1),
    Fn("yazl-tests.ts", 25, "arrow",       "getStream",   "expr",  0),
    Fn("yazl-tests.ts", 29, "arrow",       "getStream",   "expr",  0)
>>

\* The function, method and constructor signatures of index.d.ts, by line.
DeclFunctions == <<
    Sig(69, "method", "bivarianceHack"), Sig(160, "call", "call"), Sig(164, "call",
    "call"), Sig(186, "function", "createClass"), Sig(189, "function", "createFactory"),
    Sig(192, "function", "createFactory"), Sig(195, "function", "createFactory"), Sig(200,
    "function", "createFactory"), Sig(201, "function", "createFactory"), Sig(204,
    "function", "createFactory"), Sig(207, "function", "createFactory"), Sig(211,
    "function", "createElement"), Sig(217, "function", "createElement"), Sig(222,
    "function", "createElement"), Sig(227, "function", "createElement"), Sig(234,
    "function", "createElement"), Sig(239, "function", "createElement"), Sig(244,
    "function", "createElement"), Sig(249, "function", "createElement"), Sig(257,
    "function", "cloneElement"), Sig(263, "function", "cloneElement"), Sig(269, "function",
    "cloneElement"), Sig(275, "function", "cloneElement"), Sig(282, "function",
    "cloneElement"), Sig(287, "function", "cloneElement"), Sig(292, "function",
    "cloneElement"), Sig(298, "function", "isValidElement"), Sig(314, "constructor",
    "constructor"), Sig(319, "method", "setState"), Sig(324, "method", "forceUpdate"),
    Sig(325, "method", "render"), Sig(343, "method", "replaceState"), Sig(344, "method",
    "isMounted"), Sig(345, "method", "getInitialState"), Sig(349, "method",
    "getChildContext"), Sig(358, "call", "call"), Sig(366, "construct", "new"), Sig(375,
    "construct", "new"), Sig(376, "method", "getDefaultProps"), Sig(394, "method",
    "componentWillMount"), Sig(395, "method", "componentDidMount"), Sig(396, "method",
    "componentWillReceiveProps"), Sig(397, "method", "shouldComponentUpdate"), Sig(398,
    "method", "componentWillUpdate"), Sig(399, "method", "componentDidUpdate"), Sig(400,
    "method", "componentWillUnmount"), Sig(414, "method", "getDefaultProps"), Sig(415,
    "method", "getInitialState"), Sig(419, "method", "render"), Sig(436, "method",
    "preventDefault"), Sig(437, "method", "isDefaultPrevented"), Sig(438, "method",
    "stopPropagation"), Sig(439, "method", "isPropagationStopped"), Sig(440, "method",
    "persist"), Sig(498, "method", "getModifierState"), Sig(517, "method",
    "getModifierState"), Sig(532, "method", "getModifierState"), Sig(572, "method",
    "bivarianceHack"), Sig(3668, "method", "bivarianceHack"), Sig(3687, "method",
    "instanceOf"), Sig(3688, "method", "oneOf"), Sig(3689, "method", "oneOfType"),
    Sig(3690, "method", "arrayOf"), Sig(3691, "method", "objectOf"), Sig(3692, "method",
    "shape"), Sig(3700, "method", "map"), Sig(3701, "method", "map"), Sig(3702, "method",
    "forEach"), Sig(3703, "method", "count"), Sig(3704, "method", "only"), Sig(3705,
    "method", "toArray"), Sig(3732, "method", "item"), Sig(3733, "method",
    "identifiedTouch"), Sig(3755, "method", "render")
>>

Functions == FixtureFunctions \o DeclFunctions

\* Variant: only a block counts as a body.
HasBlockBody(f) == f.body = "block"

\* The function carries an implementation.
HasBody(f) == f.body # "none"

\* The function has a body with statements.
HasStatements(f) == f.body = "block" /\ f.stmts > 0

-----------------------------------------------------------------------------
(***************************************************************************)
(* The names the files use                                                 *)
(***************************************************************************)

SourceFiles == {"part_000", "yazl-tests.ts", "index.d.ts"}

\* The directory of each source file and its name, split at the dots.
SourcePath(f) ==
    CASE f = "part_000"      -> [dir |-> <<"unnamed">>, parts |-> <<"part_000">>]
      [] f = "yazl-tests.ts" -> [dir |-> <<"types", "yazl">>, parts |-> <<"yazl-tests", "ts">>]
      [] f = "index.d.ts"    -> [dir |-> <<"types", "react", "v15">>,
                                 parts |-> <<"index", "d", "ts">>]

\* The names a file declares at its top level (for index.d.ts: see Types).
LocalDecls(f) ==
    CASE f = "part_000" ->
           {"TestObject", "CookieOptions", "testObject", "cookieOptions", "result"}
      [] f = "yazl-tests.ts" -> {"zipfile"}
      [] OTHER -> {}

\* The names a file imports from a module: import { ZipFile } from "yazl" and
\* import fs = require("fs").
Imports(f) == IF f = "yazl-tests.ts" THEN {"ZipFile", "fs"} ELSE {}

\* The names a file adds to the global scope, where other files see them.
\* part_000 is a script: its top-level declarations are global.
\* yazl-tests.ts is a module and declares nothing global.  index.d.ts is a
\* module as well; it declares the global namespace JSX and, by export as
\* namespace, the global React.
GlobalDecls(f) ==
    CASE f = "part_000"   -> LocalDecls(f)
      [] f = "index.d.ts" -> {"React", "JSX"}
      [] OTHER            -> {}

\* The references a file makes, each with the scope it is written in.
Uses(f) ==
    CASE f = "part_000" ->
           {[scope |-> "", ref |-> r] :
              r \in N({"TestObject", "CookieOptions", "JQueryCookieOptions", "$", "Date",
                       "console", "testObject", "cookieOptions", "result"})}
      [] f = "yazl-tests.ts" ->
           {[scope |-> "", ref |-> r] :
              r \in N({"ZipFile", "fs", "zipfile", "console", "process", "Date",
                       "parseInt", "Buffer"})}
      [] f = "index.d.ts" ->
           {[scope |-> "React", ref |-> r] : r \in ApiRefs}
           \cup UNION {{[scope |-> t[1], ref |-> r] : r \in TypeDecl(t).refs} : t \in Types}

\* The first name of a reference: its qualifier if it has one.
HeadName(ref) == IF ref[1] = "" THEN ref[2] ELSE ref[1]

\* Where a reference of a file is declared: "local" (in the file), "import"
\* (in a module the file imports), "cross" (in the global scope, by another of
\* the source files) or "outside" (by none of the source files).
ResolveName(f, scope, ref) ==
    IF f = "index.d.ts" /\ Resolve(scope, ref) \in Types THEN "local"
    ELSE IF f # "index.d.ts" /\ ref[2] \in LocalDecls(f) THEN "local"
    ELSE IF ref[2] \in Imports(f) THEN "import"
    ELSE IF \E g \in SourceFiles \ {f} : HeadName(ref) \in GlobalDecls(g) THEN "cross"
    ELSE "outside"

-----------------------------------------------------------------------------
(***************************************************************************)
(* The compiler configuration, src/types/yazl/yazl-tests.ts lines 38-56    *)
(***************************************************************************)

Opt(line, name, kind, value) ==
    [line |-> line, name |-> name, kind |-> kind, value |-> value]

compilerOptions == <<
    Opt(40, "target",                           "string", <<"es2016">>),
    Opt(41, "lib",                              "list",   <<"es6", "dom">>),
    Opt(42, "types",                            "list",   <<"./index.d.ts">>),
    Opt(43, "noEmit",                           "bool",   <<"true">>),
    Opt(44, "esModuleInterop",                  "bool",   <<"true">>),
    Opt(45, "forceConsistentCasingInFileNames", "bool",   <<"true">>),
    Opt(46, "module",                           "string", <<"commonjs">>),
    Opt(47, "noImplicitAny",                    "bool",   <<"true">>),
    Opt(48, "strictNullChecks",                 "bool",   <<"true">>),
    Opt(49, "strictFunctionTypes",              "bool",   <<"true">>),
    Opt(50, "noImplicitThis",                   "bool",   <<"true">>)
>>

\* A file name: its directory, and its base name split at the dots, so that
\* "test/xdialog-tests.ts" is File(<<"test">>, <<"xdialog-tests", "ts">>).
File(line, dir, parts) == [line |-> line, dir |-> dir, parts |-> parts]

files == <<
    File(53, <<>>,       <<"index", "d", "ts">>),
    File(54, <<"test">>, <<"xdialog-tests", "ts">>)
>>

\* A boolean option that is set to true.
OptionEnabled(o) == o.kind = "bool" /\ o.value = <<"true">>

\* Variant: every .ts file counts as a declaration file.
IsTypeScriptFile(f) == f.parts[Len(f.parts)] = "ts"

\* A declaration file: its name ends in .d.ts.
IsDeclarationFile(f) ==
    /\ Len(f.parts) >= 3
    /\ f.parts[Len(f.parts) - 1] = "d"
    /\ f.parts[Len(f.parts)] = "ts"

\* A test file: a .ts file that is not a declaration file.
IsTestFile(f) == f.parts[Len(f.parts)] = "ts" /\ ~IsDeclarationFile(f)

\* Variant: a listed file is looked up among the source files by name alone.
ResolveFileByName(from, f) ==
    IF SourcePath(from).parts = f.parts THEN "local"
    ELSE IF \E g \in SourceFiles \ {from} : SourcePath(g).parts = f.parts THEN "cross"
    ELSE "outside"

\* Where a file listed by the configuration is: the path is relative to the
\* directory of the configuration.  "local" is the configuration's own file,
\* "cross" another source file, "outside" none of the source files.
ResolveFile(from, f) ==
    LET dir == SourcePath(from).dir \o f.dir
        same(g) == SourcePath(g).dir = dir /\ SourcePath(g).parts = f.parts
    IN  IF same(from) THEN "local"
        ELSE IF \E g \in SourceFiles \ {from} : same(g) THEN "cross"
        ELSE "outside"

-----------------------------------------------------------------------------
(***************************************************************************)
(* The static passes over the declared material                            *)
(***************************************************************************)

\* scan:    goes through Functions in order and records the functions that
\*          have a body and those whose body has statements.
\* walk:    starts at a declared type and follows edges of one kind.
\* resolve: looks up one reference of one file, or one listed file.
\* config:  loads compilerOptions, then files, entry by entry.
\* overload: resolves one call of createFactory, createElement or cloneElement.
\* augment: merges members into the global JSX interfaces.
Passes == {"scan", "walk", "resolve", "config", "overload", "augment"}

NoType == <<"none", "none">>

ScanDone == Len(Functions) + 1

ConfigDone == Len(compilerOptions) + Len(files) + 1

ScanStep ==
    /\ pass = "scan"
    /\ scan.idx < ScanDone
    /\ LET f == Functions[scan.idx] IN
         scan' = [idx        |-> scan.idx + 1,
                  bodied     |-> IF HasBody(f) THEN scan.bodied \cup {<<f.file, f.line>>}
                                 ELSE scan.bodied,
                  withStmts  |-> IF HasStatements(f)
                                 THEN scan.withStmts \cup {<<f.file, f.line>>}
                                 ELSE scan.withStmts,
                  signatures |-> IF HasBody(f) THEN scan.signatures
                                 ELSE scan.signatures \cup {<<f.file, f.line>>}]
    /\ UNCHANGED <<fixtureVars, pass, walk, lookup, cfg, call, aug>>

WalkStart(kind, t) ==
    /\ pass = "walk"
    /\ walk.kind = "none"
    /\ walk' = [kind |-> kind, start |-> t, cur |-> t, moved |-> FALSE]
    /\ UNCHANGED <<fixtureVars, pass, scan, lookup, cfg, call, aug>>

WalkStep ==
    /\ pass = "walk"
    /\ walk.kind \in EdgeKinds
    /\ \E u \in Edges(walk.kind, walk.cur) :
         walk' = [walk EXCEPT !.cur = u, !.moved = TRUE]
    /\ UNCHANGED <<fixtureVars, pass, scan, lookup, cfg, call, aug>>

LookupName(f, u) ==
    /\ pass = "resolve"
    /\ lookup' = [file |-> f, scope |-> u.scope, ref |-> u.ref, what |-> "name",
                  result |-> ResolveName(f, u.scope, u.ref)]
    /\ UNCHANGED <<fixtureVars, pass, scan, walk, cfg, call, aug>>

LookupFile(i) ==
    /\ pass = "resolve"
    /\ lookup' = [file |-> "yazl-tests.ts", scope |-> "", what |-> "file",
                  ref |-> <<"", files[i].parts[1]>>,
                  result |-> ResolveFile("yazl-tests.ts", files[i])]
    /\ UNCHANGED <<fixtureVars, pass, scan, walk, cfg, call, aug>>

ConfigStep ==
    /\ pass = "config"
    /\ cfg.idx < ConfigDone
    /\ IF cfg.idx <= Len(compilerOptions)
       THEN LET o == compilerOptions[cfg.idx] IN
              cfg' = [cfg EXCEPT !.idx = @ + 1,
                                 !.enabled = IF OptionEnabled(o) THEN @ \cup {o.name} ELSE @]
       ELSE LET f == files[cfg.idx - Len(compilerOptions)] IN
              cfg' = [cfg EXCEPT !.idx = @ + 1,
                                 !.declFiles = IF IsDeclarationFile(f) THEN @ \cup {f.line} ELSE @,
                                 !.testFiles = IF IsTestFile(f) THEN @ \cup {f.line} ELSE @]
    /\ UNCHANGED <<fixtureVars, pass, scan, walk, lookup, call, aug>>

\* Variant: a string literal argument is widened to string.
TypeValuesWidened(ty) ==
    CASE ty = "keyof ReactHTML"                  -> HTMLKeys
      [] ty = "keyof ReactSVG"                   -> SVGKeys
      [] ty = "SFC"                              -> {"SFC"}
      [] ty \in {"ClassType", "ComponentClass"}  -> {"ComponentClass"}
      [] ty = "SFC | ComponentClass | string"    -> Strings \cup Components
      [] OTHER                                   -> Strings

\* The values of the type a first parameter of createFactory or createElement
\* is declared with, or an argument has: a tag table's keys, any string, a
\* component, or the one value of a string literal type.
TypeValues(ty) ==
    CASE ty = "keyof ReactHTML"                  -> HTMLKeys
      [] ty = "keyof ReactSVG"                   -> SVGKeys
      [] ty = "string"                           -> Strings
      [] ty = "SFC"                              -> {"SFC"}
      [] ty \in {"ClassType", "ComponentClass"}  -> {"ComponentClass"}
      [] ty = "SFC | ComponentClass | string"    -> Strings \cup Components
      [] OTHER                                   -> {ty}

\* The first arguments of createFactory and createElement in the model: each
\* tag as a string literal, a value known only to be a string, and a
\* stateless functional component.
TagArgs == Strings \cup {"string", "SFC"}

\* The element arguments of cloneElement, with the props type P of each.
DOMElementArgs ==
    {[arg |-> "DetailedReactHTMLElement", eprops |-> "InputHTMLAttributes"],
     [arg |-> "ReactHTMLElement",         eprops |-> "AllHTMLAttributes"],
     [arg |-> "ReactSVGElement",          eprops |-> "SVGAttributes"],
     [arg |-> "DOMElement",               eprops |-> "HTMLAttributes"]}

CustomElementArgs ==
    {[arg |-> a, eprops |-> "ButtonProps"] : a \in {"SFCElement", "CElement", "ReactElement"}}

\* An overload fits a call.  createFactory, createElement: the argument's type
\* is assignable to the parameter's.  cloneElement: the element fits the
\* element parameter, with P and T inferred from it and P within its bound;
\* a props argument typed Q needs P extends Q, and an omitted one fits.
Fits(o, c) ==
    IF c.fn = "cloneElement"
    THEN /\ ElementFits(ElementInterface(c.arg), ElementInterface(o.param))
         /\ IF o.props = "Q"
            THEN \/ c.props = NoProps
                 \/ Assignable(ButtonProps, PropsArgType(c.props.line, c.props.cast))
            ELSE c.props = NoProps /\ MeetsBound(c.eprops, o.bound)
    ELSE TypeValues(c.arg) \subseteq TypeValues(o.param)

NoCall ==
    [fn |-> "none", arg |-> "none", eprops |-> "none", props |-> NoProps, idx |-> 0,
     status |-> "idle", line |-> 0, param |-> "none", result |-> "none"]

\* The type checker meets a call of one of the three functions.
StartCall(fn, arg, eprops, props) ==
    /\ pass = "overload"
    /\ call.status = "idle"
    /\ call' = [NoCall EXCEPT !.fn = fn, !.arg = arg, !.eprops = eprops, !.props = props,
                              !.idx = 1, !.status = "trying"]
    /\ UNCHANGED <<fixtureVars, pass, scan, walk, lookup, cfg, aug>>

\* It tries the next overload in declaration order: the first that fits
\* decides the result type, and the call is rejected when none fits.
TryOverload ==
    /\ pass = "overload"
    /\ call.status = "trying"
    /\ LET o == Overloads(call.fn)[call.idx] IN
         IF Fits(o, call)
         THEN call' = [call EXCEPT !.status = "resolved", !.line = o.line,
                                   !.param = o.param, !.result = o.result]
         ELSE IF call.idx = Len(Overloads(call.fn))
         THEN call' = [call EXCEPT !.status = "rejected"]
         ELSE call' = [call EXCEPT !.idx = @ + 1]
    /\ UNCHANGED <<fixtureVars, pass, scan, walk, lookup, cfg, aug>>

\* The seven interfaces of the two JSX namespaces.
JSXNames ==
    {"Element", "ElementClass", "ElementAttributesProperty", "ElementChildrenAttribute",
     "IntrinsicAttributes", "IntrinsicClassAttributes", "IntrinsicElements"}

\* The member a module augmentation adds to a global JSX interface.
AugmentedMember == <<"my-element", "CustomProps">>

\* A 'declare global { namespace JSX { interface X { ... } } }' elsewhere in
\* the program merges a member into the global JSX interface X.
Augment(n) ==
    /\ pass = "augment"
    /\ <<<<"global.JSX", n>>, AugmentedMember>> \notin aug
    /\ aug' = aug \cup {<<<<"global.JSX", n>>, AugmentedMember>>}
    /\ UNCHANGED <<fixtureVars, pass, scan, walk, lookup, cfg, call>>

DeclIdle ==
    /\ scan = [idx |-> 1, bodied |-> {}, withStmts |-> {}, signatures |-> {}]
    /\ walk = [kind |-> "none", start |-> NoType, cur |-> NoType, moved |-> FALSE]
    /\ lookup = [file |-> "none", scope |-> "", ref |-> <<"", "">>, what |-> "none",
                 result |-> "none"]
    /\ cfg = [idx |-> 1, enabled |-> {}, declFiles |-> {}, testFiles |-> {}]
    /\ call = NoCall
    /\ aug = {}

-----------------------------------------------------------------------------
\* The values $.cookie.defaults may hold before the fixture starts.
DefaultsInit ==
    {CookieOptionsNew, [CookieOptionsNew EXCEPT !.path = "/", !.domain = "jquery.com"]}

FixtureInit ==
    /\ cpc = 1
    /\ jq0 \in [json : BOOLEAN, defaults : DefaultsInit]
    /\ jq = jq0
    /\ cenv = [testObject |-> NoTestObject, cookieOptions |-> NoCookieOptions,
               result |-> Undefined]
    /\ accepted = {}
    /\ rejected = {}
    /\ zpc = 1
    /\ zcalls = <<>>
    /\ ztypes = <<>>
    /\ handlers = {}
    /\ ran = {}
    /\ errArgs = {}
    /\ nErrors = 0
    /\ io = {}

vars == <<fixtureVars, pass, scan, walk, lookup, cfg, call, aug>>

Init == FixtureInit /\ pass = "none" /\ DeclIdle

Next ==
    \/ CookieStep
    \/ ZipStep
    \/ \E h \in CallbackLines : RunLazy(h)
    \/ \E e \in ErrorValues : EmitError(e)
    \/ EmitClose

\* The fixtures, run statement by statement.
Spec == Init /\ [][Next]_vars

\* The fixtures do not run during the static passes.
InitDecl ==
    /\ FixtureInit
    /\ ~jq0.json /\ jq0.defaults = CookieOptionsNew
    /\ pass \in Passes
    /\ DeclIdle

NextDecl ==
    \/ ScanStep
    \/ \E k \in EdgeKinds : \E t \in Types : WalkStart(k, t)
    \/ WalkStep
    \/ \E f \in SourceFiles : \E u \in Uses(f) : LookupName(f, u)
    \/ \E i \in 1..Len(files) : LookupFile(i)
    \/ ConfigStep
    \/ \E fn \in {"createFactory", "createElement"} : \E t \in TagArgs :
         StartCall(fn, t, "none", NoProps)
    \/ \E e \in DOMElementArgs : StartCall("cloneElement", e.arg, e.eprops, NoProps)
    \/ \E e \in CustomElementArgs : \E p \in PropsArgs :
         StartCall("cloneElement", e.arg, e.eprops, p)
    \/ TryOverload
    \/ \E n \in JSXNames : Augment(n)

\* The static passes over the declarations.
SpecDecl == InitDecl /\ [][NextDecl]_vars

-----------------------------------------------------------------------------
(***************************************************************************)
(* Properties of the fixtures, checked under Spec                          *)
(***************************************************************************)

\* The statements of the cookie fixture that have been checked and run.
CookieRun == {CookieFixture[i] : i \in 1..(cpc - 1)}

\* The $.cookie(name, value [, options]) calls among them.
CookieWrites == {s \in CookieRun : s.op = "write"}

\* C1: a call $.cookie(name, value, options) is rejected by the type checker
\* when options.expires is a string, and accepted when it is a number or a
\* Date or when options is omitted; a rejected call is not also accepted.
C1_ExpiresVerdict ==
    /\ \A s \in CookieWrites :
         /\ ExpiresKind(s) = "string" => s.line \in rejected
         /\ ExpiresKind(s) \in {"number", "Date", "omitted"} => s.line \in accepted
    /\ accepted \cap rejected = {}

\* C1 witness: the whole fixture has been checked; the string call was rejected
\* and a number call, a Date call and a call without options were accepted.
C1_Witness ==
    /\ cpc = CookieDone
    /\ \E s \in CookieWrites : ExpiresKind(s) = "string" /\ s.line \in rejected
    /\ \A k \in {"number", "Date", "omitted"} :
         \E s \in CookieWrites : ExpiresKind(s) = k /\ s.line \in accepted

\* C3 as stated: after any prefix of the statements of the fixture the fields
\* of $.cookie have the values they had before the fixture started.
C3_NoGlobalWrite == jq = jq0

\* C3 as amended: of the fields of $.cookie, json is written only by the
\* statement $.cookie.json = true and defaults only by the statement
\* $.cookie.defaults = cookieOptions; until the first of them has run both
\* fields have their initial values, after it json is true, and after the second
\* defaults holds the fields of cookieOptions.
C3_OnlyJsonAndDefaultsWritten ==
    /\ jq.json = IF \E s \in CookieRun : s.op = "setJson" THEN TRUE ELSE jq0.json
    /\ jq.defaults = IF \E s \in CookieRun : s.op = "setDefaults"
                     THEN cenv.cookieOptions ELSE jq0.defaults
    /\ (\A s \in CookieRun : s.line < 35) => jq = jq0

\* C3 witness: the fixture has run and both fields differ from their initial
\* values.
C3_Witness ==
    /\ cpc = CookieDone
    /\ jq.json /\ ~jq0.json
    /\ jq.defaults # jq0.defaults
    /\ jq.defaults.path = "/" /\ jq.defaults.domain = "jquery.com"

C5_NoRuntimeErrors ==
    /\ errArgs = {}
    /\ \A h \in handlers : Callback(h).event # "error"

\* C5 as amended: the only compile-time rejection is that of part_000 line 25,
\* and the yazl fixture does handle and deliver error values at run time: its
\* "error" handler (line 13) is registered by the end of the main sequence and
\* receives the emitted error, and its getReadStream functions pass an error
\* argument to their callback, null at line 25 and {} at line 29.
C5_ErrorsOnlyInYazlFixture ==
    /\ rejected \subseteq {25}
    /\ zpc = ZipDone => 13 \in handlers
    /\ \A a \in errArgs :
         \/ a.to = "handler" /\ a.line = 13 /\ 13 \in handlers /\ a.err \in ErrorValues
         \/ a.to = "cb" /\ a.line = 25 /\ a.err = "null"
         \/ a.to = "cb" /\ a.line = 29 /\ a.err = "{}"

\* C5 witness: the handler has received an error and both getReadStream
\* functions have passed their error argument.
C5_Witness ==
    /\ \E a \in errArgs : a.to = "handler"
    /\ [line |-> 25, to |-> "cb", err |-> "null"] \in errArgs
    /\ [line |-> 29, to |-> "cb", err |-> "{}"] \in errArgs
    /\ 25 \in rejected

CookieConsoleWrites ==
    {[file |-> "part_000", line |-> l, op |-> "write", target |-> "stdout"] : l \in {27, 41}}

EndCalls == {i \in 1..Len(zcalls) : zcalls[i] = "end"}

\* C10: no addFile, addReadStream, addReadStreamLazy or addBuffer call occurs
\* after end(), and end() is called exactly once in the whole sequence.
C10_EndAfterAllAdds ==
    /\ \A i \in EndCalls : \A j \in (i + 1)..Len(zcalls) : zcalls[j] \notin AddMethods
    /\ Cardinality(EndCalls) <= 1
    /\ zpc = ZipDone => Cardinality(EndCalls) = 1

\* C10 witness: the sequence has ended with end(), after calls of all four add
\* methods.
C10_Witness ==
    /\ zpc = ZipDone
    /\ zcalls[Len(zcalls)] = "end"
    /\ \A m \in AddMethods : \E i \in 1..Len(zcalls) : zcalls[i] = m

\* The positions of the calls of the given methods in the calls made so far.
CallsOf(methods) == {i \in 1..Len(zcalls) : zcalls[i] \in methods}

C12_OnReturnsZipFile ==
    /\ \A i \in CallsOf({"on"}) : ztypes[i] = "ZipFile"
    /\ \A i \in CallsOf({"outputStream"}) : ztypes[i] = ExpectType(10)
    /\ ExpectType(10) = "ReadableStream"
    /\ zpc = ZipDone =>
         \A i \in CallsOf({"on"}) :
           /\ \E a \in CallsOf(AddMethods) : i < a
           /\ \E e \in EndCalls : i < e

\* C12 witness: the handler is registered, and an add* call and end() have
\* followed.
C12_Witness ==
    /\ 13 \in handlers
    /\ \E i \in CallsOf({"on"}) :
         /\ ztypes[i] = "ZipFile"
         /\ \E a \in CallsOf(AddMethods) : i < a
         /\ \E e \in EndCalls : i < e

-----------------------------------------------------------------------------
(***************************************************************************)
(* Properties of the declarations, checked under SpecDecl                  *)
(***************************************************************************)

\* C2 as stated: no function, method or constructor of any source file has a
\* body with statements.
C2_AllSignaturesOnly == scan.withStmts = {}

\* C2 as amended: every function, method and constructor of index.d.ts is a
\* signature only; the fixtures hold the functions with bodies, which are the
\* constructor of TestObject (part_000 line 5, two statements) and the four
\* callbacks of yazl-tests.ts (lines 13 and 17, a block of one statement;
\* lines 25 and 29, an expression).
C2_BodiesOnlyInFixtures ==
    /\ \A b \in scan.bodied : b[1] # "index.d.ts"
    /\ scan.idx = ScanDone =>
         /\ scan.bodied = {<<"part_000", 5>>, <<"yazl-tests.ts", 13>>, <<"yazl-tests.ts", 17>>,
                           <<"yazl-tests.ts", 25>>, <<"yazl-tests.ts", 29>>}
         /\ scan.withStmts = {<<"part_000", 5>>, <<"yazl-tests.ts", 13>>,
                              <<"yazl-tests.ts", 17>>}
         /\ \A i \in 1..Len(Functions) :
              Functions[i].file = "index.d.ts" =>
                <<"index.d.ts", Functions[i].line>> \in scan.signatures

\* C2 witness: the scan has gone through every function; it found signatures
\* in index.d.ts and bodies with statements in the fixtures.
C2_Witness ==
    /\ scan.idx = ScanDone
    /\ <<"index.d.ts", 186>> \in scan.signatures
    /\ <<"index.d.ts", 3755>> \in scan.signatures
    /\ <<"part_000", 5>> \in scan.withStmts

\* The walk has come back to the type it started from.
WalkClosed == walk.moved /\ walk.cur = walk.start

\* C6 as stated: the graph of 'type A mentions type B in its definition' has
\* no cycle.
C6_NoMentionCycle == ~(walk.kind = "mentions" /\ WalkClosed)

\* C6 as amended: the graph of 'type A extends type B' has no cycle (the graph
\* of 'A mentions B' has cycles, such as ReactNode -> ReactFragment ->
\* ReactNodeArray -> ReactNode and Mixin -> Mixin).
C6_NoExtendsCycle == ~(walk.kind = "extends" /\ WalkClosed)

\* C6 witness: a walk along extends edges has gone from React.JSX.Element
\* through GlobalJSXElement and the global JSX.Element to ReactElement.
C6_Witness ==
    /\ walk.kind = "extends"
    /\ walk.start = <<"React.JSX", "Element">>
    /\ walk.cur = <<"React", "ReactElement">>

\* C7 as stated: every name a file uses is declared in that same file.
C7_EveryNameLocal == lookup.result \in {"none", "local"}

\* C7 as amended: the source files do use names declared outside them
\* (yazl-tests.ts imports ZipFile and fs, and the configuration in it lists
\* files that are none of the source files), but no source file uses a name or
\* a file declared by another of the source files.
C7_NoDependencyBetweenSourceFiles ==
    /\ lookup.result # "cross"
    /\ lookup.what = "file" => lookup.result = "outside"
    /\ (lookup.what = "name" /\ lookup.file = "yazl-tests.ts"
          /\ lookup.ref[2] \in {"ZipFile", "fs"}) => lookup.result = "import"

\* C7 witness: the file index.d.ts listed by the configuration was looked up
\* and is none of the source files.
C7_Witness ==
    /\ lookup.what = "file"
    /\ lookup.ref = <<"", "index">>
    /\ lookup.result = "outside"

\* C9: once the configuration is loaded, strictNullChecks,
\* forceConsistentCasingInFileNames and noEmit are enabled and the file list
\* consists of exactly one declaration file and one test file.
C9_Configuration ==
    cfg.idx = ConfigDone =>
      /\ {"strictNullChecks", "forceConsistentCasingInFileNames", "noEmit"} \subseteq cfg.enabled
      /\ Cardinality(cfg.declFiles) = 1
      /\ Cardinality(cfg.testFiles) = 1
      /\ cfg.declFiles \cap cfg.testFiles = {}
      /\ Len(files) = Cardinality(cfg.declFiles \cup cfg.testFiles)

\* C9 witness: the configuration is loaded; line 53 lists the declaration file
\* and line 54 the test file.
C9_Witness ==
    /\ cfg.idx = ConfigDone
    /\ cfg.declFiles = {53}
    /\ cfg.testFiles = {54}

\* The resolution of the call has ended.
Settled == call.status \in {"resolved", "rejected"}

\* The call is a cloneElement of a custom-component element with a props
\* argument.
CustomClone ==
    /\ call.fn = "cloneElement"
    /\ call.arg \in {e.arg : e \in CustomElementArgs}
    /\ call.props # NoProps

\* The type of the props argument of the call.
PropsQ == PropsArgType(call.props.line, call.props.cast)

\* C14: cloneElement on a custom-component element accepts every props object
\* whose properties are a subset of the properties of element.props, and
\* returns an element of the type of its input.
C14_SubsetOfPropsAccepted ==
    (Settled /\ CustomClone /\ DOMAIN PropsQ \subseteq DOMAIN ButtonProps) =>
        /\ call.status = "resolved"
        /\ call.param = call.arg

\* What the declarations do instead: the call is rejected exactly when the
\* props type requires a property that element.props lacks or holds as
\* optional, which is the case of an uncast literal with isDisabled, key or
\* ref; an accepted call returns the element type of its input.
CloneRejectedWithoutCast ==
    (Settled /\ CustomClone) =>
        /\ call.status = "rejected" <=>
             \E n \in DOMAIN PropsQ :
               /\ PropsQ[n] = "required"
               /\ n \notin DOMAIN ButtonProps \/ ButtonProps[n] = "optional"
        /\ (~call.props.cast /\ call.props.line \in {29, 32, 33}) => call.status = "rejected"
        /\ call.props.cast => call.status = "resolved"
        /\ call.status = "resolved" => call.param = call.arg

\* C14 witness: the call of line 29 without its cast has been rejected.
C14_Witness ==
    /\ CustomClone /\ call.arg = "CElement"
    /\ call.props = [line |-> 29, cast |-> FALSE]
    /\ call.status = "rejected"

\* The positions of the overloads of the call's function that fit the call.
Fitting ==
    {i \in 1..Len(Overloads(call.fn)) : Fits(Overloads(call.fn)[i], call)}

\* The call was resolved to the first overload, in the order tried, that fits.
FirstFit ==
    /\ call.idx \in Fitting
    /\ \A i \in Fitting : call.idx <= i
    /\ call.line = Overloads(call.fn)[call.idx].line

\* The call is a cloneElement of a DOM element.
DOMClone == call.fn = "cloneElement" /\ call.arg \in {e.arg : e \in DOMElementArgs}

\* The element types with an overload of cloneElement more specific than the
\* DOMElement one.
SpecificElements == {"DetailedReactHTMLElement", "ReactHTMLElement", "ReactSVGElement"}

\* The position of the overload of cloneElement for an element type.
CloneOverloadOf(e) ==
    CHOOSE i \in 1..Len(Overloads("cloneElement")) : Overloads("cloneElement")[i].param = e

JSXAlias(n) ==
    CASE n = "Element"                   -> "GlobalJSXElement"
      [] n = "ElementClass"              -> "GlobalJSXElementClass"
      [] n = "ElementAttributesProperty" -> "GlobalJSXElementAttributesProperty"
      [] n = "ElementChildrenAttribute"  -> "GlobalJSXElementChildrenAttribute"
      [] n = "IntrinsicAttributes"       -> "GlobalJSXIntrinsicAttributes"
      [] n = "IntrinsicClassAttributes"  -> "GlobalJSXIntrinsicClassAttributes"
      [] n = "IntrinsicElements"         -> "GlobalJSXIntrinsicElements"

\* C16: each of the seven React.JSX interfaces extends its GlobalJSX alias,
\* and the alias the global JSX interface of the same name, so every member
\* of the global interface, those merged in by an augmentation included, is
\* a member of the React.JSX interface.
C16_ReactJSXPointsToGlobalJSX ==
    \A n \in JSXNames :
      /\ Extends(<<"React.JSX", n>>) = {<<"", JSXAlias(n)>>}
      /\ Extends(<<"", JSXAlias(n)>>) = {<<"global.JSX", n>>}
      /\ Members(<<"global.JSX", n>>, aug) \subseteq Members(<<"React.JSX", n>>, aug)

\* C16 witness: IntrinsicElements and ElementClass have been augmented, and
\* React.JSX.IntrinsicElements holds the added member next to the declared
\* ones.
C16_Witness ==
    /\ <<<<"global.JSX", "IntrinsicElements">>, AugmentedMember>> \in aug
    /\ <<<<"global.JSX", "ElementClass">>, AugmentedMember>> \in aug
    /\ AugmentedMember \in Members(<<"React.JSX", "IntrinsicElements">>, aug)
    /\ AugmentedMember \notin Members(<<"React.JSX", "IntrinsicElements">>, {})
    /\ \E m \in Members(<<"React.JSX", "IntrinsicElements">>, aug) : m[1] = "div"

\* The call is a createFactory or createElement with a string as first
\* argument: a tag literal, or a value known only to be a string.
TagCall(fn) == call.fn = fn /\ call.arg \in Strings \cup {"string"}

\* The result type the four tag overloads of createElement give a tag.
TagResult(tag) ==
    IF tag = "input"
    THEN "DetailedReactHTMLElement<InputHTMLAttributes<HTMLInputElement>, HTMLInputElement>"
    ELSE IF tag \in HTMLKeys THEN "DetailedReactHTMLElement<P, T>"
    ELSE IF tag \in SVGKeys THEN "ReactSVGElement"
    ELSE "DOMElement<P, T>"

\* The four cases of a tag, by number.
TagCase(k, tag) ==
    CASE k = 1 -> tag = "input"
      [] k = 2 -> tag \in HTMLKeys /\ tag # "input"
      [] k = 3 -> tag \in SVGKeys
      [] k = 4 -> tag \notin HTMLKeys \cup SVGKeys

\* C17: createElement with a string tag is resolved to the first overload
\* that fits, in declaration order: "input" gives DetailedReactHTMLElement of
\* InputHTMLAttributes and HTMLInputElement, any other key of ReactHTML
\* DetailedReactHTMLElement<P, T>, a key of ReactSVG ReactSVGElement, any
\* other string DOMElement<P, T>; exactly one of the four cases applies.
C17_TagPicksResult ==
    /\ TagCall("createElement") => Cardinality({k \in 1..4 : TagCase(k, call.arg)}) = 1
    /\ (Settled /\ TagCall("createElement")) =>
         /\ call.status = "resolved"
         /\ FirstFit
         /\ call.result = TagResult(call.arg)
         /\ \A k \in 1..4 : TagCase(k, call.arg) => call.idx = k

\* C17 witness: createElement("input") has been resolved to the overload of
\* line 211, although the overloads of lines 217 and 227 fit it too.
C17_Witness ==
    /\ TagCall("createElement") /\ call.arg = "input"
    /\ call.status = "resolved" /\ call.line = 211
    /\ {2, 4} \subseteq Fitting

\* The position of the overload of a function whose first parameter has the
\* given type.
OverloadFor(fn, param) ==
    CHOOSE i \in 1..Len(Overloads(fn)) : Overloads(fn)[i].param = param

\* The key sets of ReactHTML and ReactSVG are disjoint, and ReactDOM has one
\* member, so one factory type, for each of its keys.
OneFactoryPerTag ==
    /\ HTMLKeys \cap SVGKeys = {}
    /\ KeyOf(<<"React", "ReactDOM">>) = HTMLKeys \cup SVGKeys
    /\ \A tag \in KeyOf(<<"React", "ReactDOM">>) :
         Cardinality({m \in Members(<<"React", "ReactDOM">>, {}) : m[1] = tag}) = 1

\* C18: the key sets of ReactHTML and ReactSVG are disjoint, ReactDOM has one
\* factory type for each tag, and no call of createElement or createFactory
\* fits both of the first two tag overloads of its function.
C18_FirstTwoNeverBothFit ==
    /\ OneFactoryPerTag
    /\ \A fn \in {"createFactory", "createElement"} :
         (TagCall(fn) /\ call.status # "idle") => ~({1, 2} \subseteq Fitting)

\* C18, amended: the key sets are disjoint, ReactDOM has one factory type for
\* each tag, and no call of createElement or createFactory fits both the
\* keyof ReactHTML and the keyof ReactSVG overload.  These are the first two
\* overloads of createFactory; the first two of createElement are "input"
\* and keyof ReactHTML, which both fit the tag "input" and no other.
C18_KeyedOverloadsNeverBothFit ==
    /\ OneFactoryPerTag
    /\ OverloadFor("createFactory", "keyof ReactHTML") = 1
    /\ OverloadFor("createFactory", "keyof ReactSVG") = 2
    /\ \A fn \in {"createFactory", "createElement"} :
         (TagCall(fn) /\ call.status # "idle") =>
           ~({OverloadFor(fn, "keyof ReactHTML"), OverloadFor(fn, "keyof ReactSVG")}
                \subseteq Fitting)
    /\ (TagCall("createElement") /\ call.status # "idle") =>
         ({1, 2} \subseteq Fitting <=> call.arg = "input")

\* C18 witness: createElement("input") is resolved; its first two overloads
\* fit, the keyof ReactSVG one does not.
C18_Witness ==
    /\ TagCall("createElement") /\ call.arg = "input" /\ call.status = "resolved"
    /\ {1, 2} \subseteq Fitting
    /\ OverloadFor("createElement", "keyof ReactSVG") \notin Fitting
====
